---------------------------- MODULE Spec2Model ----------------------------
(***************************************************************************)
(* A model of init/devices.cpp, the ueventd device manager: the uevent     *)
(* parser, the permission rule lists, the platform device registry, the    *)
(* block/character symlink derivation, the module alias engine with its    *)
(* deferred queue, the firmware loader, the netlink drain and coldboot.    *)
(*                                                                         *)
(* C strings are TLA+ strings; a NULL pointer is the value NULL.           *)
(***************************************************************************)
EXTENDS Integers, Sequences, FiniteSets, TLC

(***************************************************************************)
(* Bounds of the model.                                                    *)
(***************************************************************************)
\* longest deferred queue the model lets grow
MaxDeferred == 2
\* longest platform registry the model lets grow
MaxPlatform == 2
\* most device_init calls
MaxInits == 2
\* most uevents the kernel sends on its own
MaxHotplug == 2
\* longest blacklist the model lets grow (re-reads append duplicates)
MaxBlacklist == 4
\* most rules add_dev_perms is called for
MaxRules == 3

(***************************************************************************)
(* C string helpers.                                                       *)
(***************************************************************************)
NULL == "<NULL>"

CharAt(s, i) == SubSeq(s, i, i)

\* the string from (1-based) position i on: the C pointer s + (i - 1)
StrFrom(s, i) == SubSeq(s, i, Len(s))

\* strncmp(s, pre, strlen(pre)) == 0
StartsWith(s, pre) == Len(s) >= Len(pre) /\ SubSeq(s, 1, Len(pre)) = pre

\* strchr(s + (from - 1), c): the position of the first c at or after from, 0 if none
StrChr(s, c, from) ==
    LET at == {i \in from..Len(s) : CharAt(s, i) = c}
    IN  IF at = {} THEN 0 ELSE CHOOSE i \in at : \A j \in at : i <= j

\* strrchr(s, c): the position of the last c, 0 if none
RECURSIVE StrRChrFrom(_, _, _)
StrRChrFrom(s, c, i) ==
    IF i = 0 THEN 0
    ELSE IF CharAt(s, i) = c THEN i
    ELSE StrRChrFrom(s, c, i - 1)

StrRChr(s, c) == StrRChrFrom(s, c, Len(s))

\* snprintf(buf, size, "%s", s): what the buffer holds afterwards
Snprintf(s, size) == IF Len(s) >= size THEN SubSeq(s, 1, size - 1) ELSE s

\* fnmatch(p, s, flags) == 0 for patterns of literals, '?' and '*';
\* pathname is the FNM_PATHNAME flag ('/' is matched only by a literal '/')
RECURSIVE FnMatchFrom(_, _, _, _, _)
FnMatchFrom(p, s, i, j, pathname) ==
    IF i > Len(p) THEN j > Len(s)
    ELSE IF CharAt(p, i) = "*"
         THEN \/ FnMatchFrom(p, s, i + 1, j, pathname)
              \/ /\ j <= Len(s)
                 /\ (pathname => CharAt(s, j) # "/")
                 /\ FnMatchFrom(p, s, i, j + 1, pathname)
    ELSE IF CharAt(p, i) = "?"
         THEN /\ j <= Len(s)
              /\ (pathname => CharAt(s, j) # "/")
              /\ FnMatchFrom(p, s, i + 1, j + 1, pathname)
    ELSE /\ j <= Len(s)
         /\ CharAt(s, j) = CharAt(p, i)
         /\ FnMatchFrom(p, s, i + 1, j + 1, pathname)

FnMatch(p, s, pathname) == FnMatchFrom(p, s, 1, 1, pathname)

(***************************************************************************)
(* The module alias engine (pure parts).                                   *)
(***************************************************************************)
\* is_module_blacklisted_or_deferred: the first blacklist entry naming the
\* module decides: 1 blacklisted, 2 deferred and wanted so, 0 load it
RECURSIVE BlacklistScan(_, _, _, _)
BlacklistScan(name, need_deferred, bl, i) ==
    IF i > Len(bl) THEN 0
    ELSE IF bl[i].name = name
         THEN (IF bl[i].deferred THEN (IF need_deferred THEN 2 ELSE 0) ELSE 1)
    ELSE BlacklistScan(name, need_deferred, bl, i + 1)

\* the blacklist consulted only when deferral is asked for
is_module_blacklisted_when_deferring(name, need_deferred, bl) ==
    IF name = NULL \/ ~need_deferred THEN 0
    ELSE BlacklistScan(name, need_deferred, bl, 1)

is_module_blacklisted_or_deferred(name, need_deferred, bl) ==
    IF name = NULL THEN 0 ELSE BlacklistScan(name, need_deferred, bl, 1)

\* insmod_by_dep(name, ...): 0, or -1 for the modules of `failing`
insmod_by_dep(name, failing) == IF name \in failing THEN -1 ELSE 0

\* load_module_by_device_modalias: walks the whole alias list; ret is the
\* result for the last matching alias, calls the modules passed to insmod
RECURSIVE LoadScan(_, _, _, _, _, _, _)
LoadScan(id, need_deferred, aliases, bl, failing, i, acc) ==
    IF i > Len(aliases) THEN acc
    ELSE IF FnMatch(aliases[i].pattern, id, FALSE)
         THEN LET b == is_module_blacklisted_or_deferred(aliases[i].name,
                                                         need_deferred, bl)
              IN  IF b = 0
                  THEN LoadScan(id, need_deferred, aliases, bl, failing, i + 1,
                                [ret   |-> insmod_by_dep(aliases[i].name, failing),
                                 calls |-> acc.calls \cup {aliases[i].name}])
                  ELSE LoadScan(id, need_deferred, aliases, bl, failing, i + 1,
                                [acc EXCEPT !.ret = b])
    ELSE LoadScan(id, need_deferred, aliases, bl, failing, i + 1, acc)

load_module_by_device_modalias(id, need_deferred, aliases, bl, failing) ==
    LoadScan(id, need_deferred, aliases, bl, failing, 1,
             [ret |-> -1, calls |-> {}])

\* the insmod calls of a whole deferred drain of queue q
RECURSIVE DrainCalls(_, _, _, _, _)
DrainCalls(q, aliases, bl, failing, i) ==
    IF i > Len(q) THEN {}
    ELSE load_module_by_device_modalias(q[i], FALSE, aliases, bl, failing).calls
         \cup DrainCalls(q, aliases, bl, failing, i + 1)

\* an insmod call as it is recorded: via is "alias" (an alias match) or
\* "direct" (module_probe's fallback on its argument)
InsmodCalls(names, via, isBooting) ==
    {[name |-> n, via |-> via, booting |-> isBooting] : n \in names}

(***************************************************************************)
(* The permission rule lists (pure parts).                                 *)
(***************************************************************************)
perm_path_matches(path, dp) ==
    IF dp.prefix THEN StartsWith(path, dp.name)
    ELSE IF dp.wildcard THEN FnMatch(dp.name, path, TRUE)
    ELSE path = dp.name

\* a rule matches the path, or else one of the links
PermNodeMatches(path, links, dp) ==
    \/ perm_path_matches(path, dp)
    \/ \E i \in 1..Len(links) : perm_path_matches(links[i], dp)

DefaultPerm == [uid |-> 0, gid |-> 0, perm |-> 384]   \* 0600

\* get_device_perm: list_for_each_reverse, the first match returns
RECURSIVE PermScanReverse(_, _, _, _)
PermScanReverse(path, links, perms, i) ==
    IF i = 0 THEN DefaultPerm
    ELSE IF PermNodeMatches(path, links, perms[i])
         THEN [uid |-> perms[i].uid, gid |-> perms[i].gid, perm |-> perms[i].perm]
    ELSE PermScanReverse(path, links, perms, i - 1)

\* the list walked from its head: the first rule inserted that matches
get_device_perm_forward(path, links, perms) ==
    LET ms == {i \in 1..Len(perms) : PermNodeMatches(path, links, perms[i])}
    IN  IF ms = {} THEN DefaultPerm
        ELSE LET i == CHOOSE k \in ms : \A l \in ms : k <= l
             IN  [uid |-> perms[i].uid, gid |-> perms[i].gid,
                  perm |-> perms[i].perm]

get_device_perm(path, links, perms) ==
    PermScanReverse(path, links, perms, Len(perms))

\* the sysfs rule's name is compared from its fifth character on
SysPermMatches(upath, dp) ==
    LET n == StrFrom(dp.name, 5)
    IN  IF dp.prefix THEN StartsWith(upath, n)
        ELSE IF dp.wildcard THEN FnMatch(n, upath, TRUE)
        ELSE upath = n

SysBufSize == 512

\* fixup_sys_perms: forward walk, chown and chmod per matching rule, the
\* walk ends at the first match whose path would not fit the buffer
RECURSIVE FixupScan(_, _, _, _)
FixupScan(upath, rules, i, attrs) ==
    IF i > Len(rules) THEN attrs
    ELSE IF ~SysPermMatches(upath, rules[i])
         THEN FixupScan(upath, rules, i + 1, attrs)
    ELSE IF Len(upath) + Len(rules[i].attr) + 6 > SysBufSize THEN attrs
    ELSE LET f == "/sys" \o upath \o "/" \o rules[i].attr
             v == [uid |-> rules[i].uid, gid |-> rules[i].gid,
                   perm |-> rules[i].perm]
         IN  FixupScan(upath, rules, i + 1,
                       [p \in DOMAIN attrs \cup {f} |->
                            IF p = f THEN v ELSE attrs[p]])

(***************************************************************************)
(* The platform device registry (pure parts).                              *)
(***************************************************************************)
\* add_platform_device: no look-up, the entry is appended
add_platform_device(path, names) ==
    LET name == IF StartsWith(path, "/devices/")
                THEN (IF StartsWith(StrFrom(path, 10), "platform/")
                      THEN StrFrom(path, 19) ELSE StrFrom(path, 10))
                ELSE path
    IN  Append(names, [name |-> name, path |-> path, path_len |-> Len(path)])

\* find_platform_device: the index of the newest entry that is a directory
\* prefix of path, 0 if none
RECURSIVE FindPlatformFrom(_, _, _)
FindPlatformFrom(path, names, i) ==
    IF i = 0 THEN 0
    ELSE IF /\ names[i].path_len < Len(path)
            /\ CharAt(path, names[i].path_len + 1) = "/"
            /\ SubSeq(path, 1, names[i].path_len) = names[i].path
         THEN i
    ELSE FindPlatformFrom(path, names, i - 1)

find_platform_device(path, names) == FindPlatformFrom(path, names, Len(names))

RemoveAt(q, i) == SubSeq(q, 1, i - 1) \o SubSeq(q, i + 1, Len(q))

\* remove_platform_device: the newest entry with exactly this path goes
RECURSIVE RemovePlatformFrom(_, _, _)
RemovePlatformFrom(path, names, i) ==
    IF i = 0 THEN names
    ELSE IF names[i].path = path THEN RemoveAt(names, i)
    ELSE RemovePlatformFrom(path, names, i - 1)

remove_platform_device(path, names) ==
    RemovePlatformFrom(path, names, Len(names))

\* the prefix taken without room for its terminator
find_pci_device_prefix_no_terminator(path, buf_sz) ==
    IF ~StartsWith(path, "/devices/pci") THEN NULL
    ELSE LET start == 10
             e1 == StrChr(path, "/", start)
             e2 == IF e1 = 0 THEN 0 ELSE StrChr(path, "/", e1 + 1)
         IN  IF e1 = 0 \/ e2 = 0 THEN NULL
             ELSE IF (e2 - start) > buf_sz THEN NULL
             ELSE SubSeq(path, start, e2 - 1)

\* find_pci_device_prefix: the prefix, or NULL for the -1 return
find_pci_device_prefix(path, buf_sz) ==
    IF ~StartsWith(path, "/devices/pci") THEN NULL
    ELSE LET start == 10
             e1 == StrChr(path, "/", start)
             e2 == IF e1 = 0 THEN 0 ELSE StrChr(path, "/", e1 + 1)
         IN  IF e1 = 0 \/ e2 = 0 THEN NULL
             ELSE IF (e2 - start) + 1 > buf_sz THEN NULL
             ELSE SubSeq(path, start, e2 - 1)

(***************************************************************************)
(* Symlink derivation and device names (pure parts).                       *)
(***************************************************************************)
AcceptChars ==
    {"a","b","c","d","e","f","g","h","i","j","k","l","m","n","o","p","q","r",
     "s","t","u","v","w","x","y","z","A","B","C","D","E","F","G","H","I","J",
     "K","L","M","N","O","P","Q","R","S","T","U","V","W","X","Y","Z","0","1",
     "2","3","4","5","6","7","8","9","_","-","."}

\* sanitize (util): every byte outside [A-Za-z0-9._-] becomes '_'
RECURSIVE sanitize(_)
sanitize(s) ==
    IF s = "" THEN ""
    ELSE (IF CharAt(s, 1) \in AcceptChars THEN CharAt(s, 1) ELSE "_")
         \o sanitize(StrFrom(s, 2))

Digits == "0123456789"

\* printf's %d for n >= 0
RECURSIVE FmtD(_)
FmtD(n) == IF n < 10 THEN CharAt(Digits, n + 1)
           ELSE FmtD(n \div 10) \o CharAt(Digits, (n % 10) + 1)

\* printf's %03d for n >= 0
Fmt03D(n) == IF n < 10 THEN "00" \o FmtD(n)
             ELSE IF n < 100 THEN "0" \o FmtD(n)
             ELSE FmtD(n)

LinkPathSize == 256
PciBufSize == 256

\* the links with the partition name used as it came
get_block_device_symlinks_raw_name(u, names) ==
    LET pdev == find_platform_device(u.path, names)
        pci  == find_pci_device_prefix(u.path, PciBufSize)
    IN  IF pdev = 0 /\ pci = NULL THEN <<>>
        ELSE LET type   == IF pdev # 0 THEN "platform" ELSE "pci"
                 device == IF pdev # 0 THEN names[pdev].name ELSE pci
                 link_path == Snprintf("/dev/block/" \o type \o "/" \o device,
                                       LinkPathSize)
                 byname == IF u.partition_name # NULL
                           THEN <<link_path \o "/by-name/" \o u.partition_name>>
                           ELSE <<>>
                 bynum  == IF u.partition_num >= 0
                           THEN <<link_path \o "/by-num/p"
                                   \o FmtD(u.partition_num)>>
                           ELSE <<>>
                 slash  == StrRChr(u.path, "/")
             IN  byname \o bynum
                 \o <<link_path \o "/" \o StrFrom(u.path, slash + 1)>>

\* the links with the by-num link put before the by-name link
get_block_device_symlinks_num_first(u, names) ==
    LET pdev == find_platform_device(u.path, names)
        pci  == find_pci_device_prefix(u.path, PciBufSize)
    IN  IF pdev = 0 /\ pci = NULL THEN <<>>
        ELSE LET type   == IF pdev # 0 THEN "platform" ELSE "pci"
                 device == IF pdev # 0 THEN names[pdev].name ELSE pci
                 link_path == Snprintf("/dev/block/" \o type \o "/" \o device,
                                       LinkPathSize)
                 byname == IF u.partition_name # NULL
                           THEN <<link_path \o "/by-name/"
                                   \o sanitize(u.partition_name)>>
                           ELSE <<>>
                 bynum  == IF u.partition_num >= 0
                           THEN <<link_path \o "/by-num/p"
                                   \o FmtD(u.partition_num)>>
                           ELSE <<>>
                 slash  == StrRChr(u.path, "/")
             IN  bynum \o byname
                 \o <<link_path \o "/" \o StrFrom(u.path, slash + 1)>>

\* get_block_device_symlinks: the links array, <<>> for NULL
get_block_device_symlinks(u, names) ==
    LET pdev == find_platform_device(u.path, names)
        pci  == find_pci_device_prefix(u.path, PciBufSize)
    IN  IF pdev = 0 /\ pci = NULL THEN <<>>
        ELSE LET type   == IF pdev # 0 THEN "platform" ELSE "pci"
                 device == IF pdev # 0 THEN names[pdev].name ELSE pci
                 link_path == Snprintf("/dev/block/" \o type \o "/" \o device,
                                       LinkPathSize)
                 byname == IF u.partition_name # NULL
                           THEN <<link_path \o "/by-name/"
                                   \o sanitize(u.partition_name)>>
                           ELSE <<>>
                 bynum  == IF u.partition_num >= 0
                           THEN <<link_path \o "/by-num/p"
                                   \o FmtD(u.partition_num)>>
                           ELSE <<>>
                 slash  == StrRChr(u.path, "/")
             IN  byname \o bynum
                 \o <<link_path \o "/" \o StrFrom(u.path, slash + 1)>>

\* get_character_device_symlinks: the links array, <<>> for NULL
get_character_device_symlinks(u, names) ==
    LET pdev == find_platform_device(u.path, names)
    IN  IF pdev = 0 THEN <<>>
        ELSE LET parent == StrChr(u.path, "/", names[pdev].path_len + 1)
             IN  IF parent = 0 THEN <<>>
                 ELSE IF ~StartsWith(StrFrom(u.path, parent), "/usb") THEN <<>>
                 ELSE LET p1 == StrChr(u.path, "/", parent + 1)
                          p2 == IF p1 = 0 THEN 0 ELSE StrChr(u.path, "/", p1 + 1)
                          st == p2 + 1
                          slash == IF p2 = 0 THEN 0 ELSE StrChr(u.path, "/", st)
                      IN  IF p2 = 0 \/ slash = 0 \/ slash - st <= 0 THEN <<>>
                          ELSE <<"/dev/usb/" \o u.subsystem
                                  \o SubSeq(u.path, st, slash - 1)>>

\* parse_device_name: the name, NULL when the event is to be ignored
parse_device_name(u, len) ==
    LET slash == StrRChr(u.path, "/")
    IN  IF u.major < 0 \/ u.minor < 0 THEN NULL
        ELSE IF slash = 0 THEN NULL
        ELSE IF Len(u.path) - slash > len THEN NULL
        ELSE StrFrom(u.path, slash + 1)

NameLen == 64
DEVPATH_LEN == 96

\* assemble_devpath: the path, NULL when it does not fit
assemble_devpath(dirname, devname) ==
    LET full == dirname \o "/" \o (IF devname = NULL THEN "(null)" ELSE devname)
    IN  IF Len(full) >= DEVPATH_LEN THEN NULL ELSE full

\* ueventd_subsystem_find_by_name (ueventd_parser): the override table
SubsystemTable ==
    [s \in {"camera"} |-> [dirname |-> "/dev/cam", devname_src |-> "devpath"]]

\* the base directory handle_generic_device_event picks for a subsystem
\* that is neither overridden nor usb
GenericBase(subsystem, name) ==
    IF StartsWith(subsystem, "graphics") THEN "/dev/graphics/"
    ELSE IF StartsWith(subsystem, "drm") THEN "/dev/dri/"
    ELSE IF StartsWith(subsystem, "oncrpc") THEN "/dev/oncrpc/"
    ELSE IF StartsWith(subsystem, "adsp") THEN "/dev/adsp/"
    ELSE IF StartsWith(subsystem, "msm_camera") THEN "/dev/msm_camera/"
    ELSE IF StartsWith(subsystem, "input") THEN "/dev/input/"
    ELSE IF StartsWith(subsystem, "mtd") THEN "/dev/mtd/"
    ELSE IF StartsWith(subsystem, "sound") THEN "/dev/snd/"
    ELSE IF StartsWith(subsystem, "misc") /\ StartsWith(name, "log_")
         THEN "/dev/log/"
    ELSE "/dev/"

\* the device node path handle_generic_device_event arrives at, NULL when
\* it returns before handle_device
GenericDevpath(u) ==
    LET name == parse_device_name(u, NameLen)
    IN  IF name = NULL THEN NULL
        ELSE IF u.subsystem \in DOMAIN SubsystemTable
        THEN LET ss == SubsystemTable[u.subsystem]
             IN  IF ss.devname_src = "devname"
                 THEN assemble_devpath(ss.dirname, u.device_name)
                 ELSE IF ss.devname_src = "devpath"
                 THEN assemble_devpath(ss.dirname, name)
                 ELSE NULL
        ELSE IF StartsWith(u.subsystem, "usb")
        THEN IF u.subsystem = "usb" \/ u.subsystem = "usbmisc"
             THEN IF u.device_name # NULL
                  THEN assemble_devpath("/dev", u.device_name)
                  ELSE Snprintf("/dev/bus/usb/" \o Fmt03D((u.minor \div 128) + 1)
                                \o "/" \o Fmt03D((u.minor % 128) + 1),
                                DEVPATH_LEN)
             ELSE NULL
        ELSE LET base == GenericBase(u.subsystem, name)
                 nm   == IF base = "/dev/log/" THEN StrFrom(name, 5) ELSE name
             IN  Snprintf(base \o nm, DEVPATH_LEN)

(***************************************************************************)
(* parse_event.  A message is [n, recs]: the length recv returned and the  *)
(* NUL-terminated records of the buffer.                                   *)
(***************************************************************************)
\* atoi: an optional '-', then the leading digits (0 when there are none)
RECURSIVE AtoiDigits(_, _)
AtoiDigits(s, acc) ==
    IF s = "" THEN acc
    ELSE LET d == StrChr(Digits, CharAt(s, 1), 1)
         IN  IF d = 0 THEN acc
             ELSE AtoiDigits(StrFrom(s, 2), (acc * 10) + (d - 1))

atoi(s) == IF StartsWith(s, "-") THEN 0 - AtoiDigits(StrFrom(s, 2), 0)
           ELSE AtoiDigits(s, 0)

EmptyUevent ==
    [action |-> "", path |-> "", subsystem |-> "", firmware |-> "",
     major |-> -1, minor |-> -1, partition_name |-> NULL,
     partition_num |-> -1, device_name |-> NULL, modalias |-> NULL]

\* PARTN is told by its first five characters, the other tags left out
ParseRecordShortTag(r, u) ==
    IF StartsWith(r, "ACTION=") THEN [u EXCEPT !.action = StrFrom(r, 8)]
    ELSE IF StartsWith(r, "DEVPATH=") THEN [u EXCEPT !.path = StrFrom(r, 9)]
    ELSE IF StartsWith(r, "SUBSYSTEM=")
         THEN [u EXCEPT !.subsystem = StrFrom(r, 11)]
    ELSE IF StartsWith(r, "PARTN")
         THEN [u EXCEPT !.partition_num = atoi(StrFrom(r, 7))]
    ELSE u

\* one record of the message: the first tag that is a prefix of it is taken
ParseRecord(r, u) ==
    IF StartsWith(r, "ACTION=") THEN [u EXCEPT !.action = StrFrom(r, 8)]
    ELSE IF StartsWith(r, "DEVPATH=") THEN [u EXCEPT !.path = StrFrom(r, 9)]
    ELSE IF StartsWith(r, "SUBSYSTEM=")
         THEN [u EXCEPT !.subsystem = StrFrom(r, 11)]
    ELSE IF StartsWith(r, "FIRMWARE=")
         THEN [u EXCEPT !.firmware = StrFrom(r, 10)]
    ELSE IF StartsWith(r, "MAJOR=") THEN [u EXCEPT !.major = atoi(StrFrom(r, 7))]
    ELSE IF StartsWith(r, "MINOR=") THEN [u EXCEPT !.minor = atoi(StrFrom(r, 7))]
    ELSE IF StartsWith(r, "PARTN=")
         THEN [u EXCEPT !.partition_num = atoi(StrFrom(r, 7))]
    ELSE IF StartsWith(r, "PARTNAME=")
         THEN [u EXCEPT !.partition_name = StrFrom(r, 10)]
    ELSE IF StartsWith(r, "DEVNAME=")
         THEN [u EXCEPT !.device_name = StrFrom(r, 9)]
    ELSE IF StartsWith(r, "MODALIAS=")
         THEN [u EXCEPT !.modalias = StrFrom(r, 10)]
    ELSE u

\* the walk over the records ends at the first empty one (a NUL at *msg)
RECURSIVE ParseFrom(_, _, _)
ParseFrom(recs, i, u) ==
    IF i > Len(recs) \/ recs[i] = "" THEN u
    ELSE ParseFrom(recs, i + 1, ParseRecord(recs[i], u))

parse_event(recs) == ParseFrom(recs, 1, EmptyUevent)

(***************************************************************************)
(* The state.                                                              *)
(***************************************************************************)
VARIABLES
    \* ---- the module alias engine
    modules_aliases_map,            \* list of [name, pattern]
    modules_blacklist,              \* list of [name, deferred]
    deferred_module_loading_list,   \* list of MODALIAS strings
    insmodded,                      \* every call of insmod_by_dep so far
    \* ---- the rule lists and the registry
    dev_perms,                      \* list of perms_ without attr
    sys_perms,                      \* list of perms_ with attr
    platform_names,                 \* list of [name, path, path_len]
    \* ---- the file systems written
    dev_fs,                         \* /dev: path -> node or symlink
    sysfs_attrs,                    \* /sys attributes chown/chmod'ed
    \* ---- the files read
    booting,                        \* /dev/.booting exists
    alias_file,                     \* modules.alias: [present, lines]
    blacklist_file,                 \* modules.blacklist: [present, lines]
    coldboot_done,                  \* COLDBOOT_DONE exists
    fw_dirs,                        \* the firmware_dirs[] that hold the file
    \* ---- the netlink socket and handle_device_fd
    socket,                         \* messages queued by the kernel
    arrived,                        \* number of messages queued so far
    hd,                             \* handle_device_fd's frame
    recv_log,                       \* ids in the order recv returned them
    handled_log,                    \* ids in the order their handling ended
    \* ---- device_init and the coldboot walk
    di,                             \* device_init's frame
    walk,                           \* do_coldboot's stack of open directories
    uevent_writes,                  \* the uevent files written, in order
    \* ---- process_firmware_event
    fw,                             \* the firmware handler's frame
    \* ---- history (not program state)
    hist                            \* the last block event, its links, and
                                    \* the platform devpaths last removed

module_vars == <<modules_aliases_map, modules_blacklist,
                 deferred_module_loading_list, insmodded>>
perm_vars == <<dev_perms, sys_perms>>
dev_vars == <<platform_names, dev_fs, sysfs_attrs>>
file_vars == <<booting, alias_file, blacklist_file, coldboot_done, fw_dirs>>
sock_vars == <<socket, arrived, hd, recv_log, handled_log>>
cb_vars == <<di, walk, uevent_writes>>

vars == <<module_vars, perm_vars, dev_vars, file_vars, sock_vars, cb_vars, fw,
          hist>>

(***************************************************************************)
(* handle_module_loading and the deferred drain.                           *)
(***************************************************************************)
\* read_modules_aliases() == 0: the file could be opened and read
read_modules_aliases_ok == alias_file.present

\* the lists after the reads at the head of handle_module_loading
AliasesAfterRead ==
    IF modules_aliases_map = <<>> /\ read_modules_aliases_ok
    THEN modules_aliases_map \o alias_file.lines
    ELSE modules_aliases_map

BlacklistAfterRead ==
    IF modules_aliases_map = <<>> /\ read_modules_aliases_ok
       /\ blacklist_file.present
    THEN modules_blacklist \o blacklist_file.lines
    ELSE modules_blacklist

\* the deferred queue after handle_module_loading decided on `enqueue`
QueueAfter(modalias, enqueue) ==
    IF enqueue THEN Append(deferred_module_loading_list, modalias)
    ELSE deferred_module_loading_list

handle_module_loading(modalias, failing) ==
    LET aliases == AliasesAfterRead
        bl      == BlacklistAfterRead
        r       == IF modalias = NULL \/ aliases = <<>>
                   THEN [ret |-> -1, calls |-> {}]
                   ELSE load_module_by_device_modalias(modalias, booting,
                                                       aliases, bl, failing)
        enqueue == modalias # NULL /\ (aliases = <<>> \/ r.ret = 2)
    IN  /\ Len(bl) <= MaxBlacklist
        /\ enqueue => Len(deferred_module_loading_list) < MaxDeferred
        /\ modules_aliases_map' = aliases
        /\ modules_blacklist' = bl
        /\ insmodded' = insmodded \cup InsmodCalls(r.calls, "alias", booting)
        /\ deferred_module_loading_list' = QueueAfter(modalias, enqueue)

\* handle_deferred_module_loading: with a loaded alias table every queued
\* MODALIAS is tried with need_deferred = false and taken off the queue
handle_deferred_module_loading(failing) ==
    IF modules_aliases_map # <<>>
    THEN /\ insmodded' = insmodded \cup
              InsmodCalls(DrainCalls(deferred_module_loading_list,
                                     modules_aliases_map, modules_blacklist,
                                     failing, 1),
                          "alias", booting)
         /\ deferred_module_loading_list' = <<>>
         /\ UNCHANGED <<modules_aliases_map, modules_blacklist>>
    ELSE UNCHANGED module_vars

\* module_probe(argv[1]) in the modprobe helper, a process of its own whose
\* lists start empty: both files are read, then the alias match, then the
\* fall-back insmod of the argument itself
module_probe(arg, failing) ==
    LET aliases == IF alias_file.present THEN alias_file.lines ELSE <<>>
        bl      == IF blacklist_file.present THEN blacklist_file.lines ELSE <<>>
        r       == load_module_by_device_modalias(arg, FALSE, aliases, bl,
                                                  failing)
    IN  /\ insmodded' = insmodded
              \cup InsmodCalls(r.calls, "alias", booting)
              \cup (IF r.ret # 0 THEN InsmodCalls({arg}, "direct", booting)
                    ELSE {})
        /\ UNCHANGED <<modules_aliases_map, modules_blacklist,
                       deferred_module_loading_list>>

(***************************************************************************)
(* The device node manager.  An entry of dev_fs is a node or a symlink.    *)
(* env holds what the outside decides during one event: the modules whose  *)
(* insmod fails, whether the SELinux label lookup and mknod succeed, and   *)
(* the label found.                                                        *)
(***************************************************************************)
FsPut(fs, path, e) == [p \in DOMAIN fs \cup {path} |-> IF p = path THEN e ELSE fs[p]]

FsDel(fs, path) == [p \in DOMAIN fs \ {path} |-> fs[p]]

Node(block, pm, major, minor, label) ==
    [kind |-> "node", target |-> "", block |-> block, perm |-> pm.perm,
     uid |-> pm.uid, gid |-> pm.gid, major |-> major, minor |-> minor,
     label |-> label]

Symlink(target) ==
    [kind |-> "link", target |-> target, block |-> FALSE, perm |-> 511,
     uid |-> 0, gid |-> 0, major |-> -1, minor |-> -1, label |-> ""]

AID_ROOT == 0

\* one statement of make_device done: the process's effective gid and
\* file-creation label, and /dev, after it
MdStep(op, egid, fscreatecon, fs) ==
    [op |-> op, egid |-> egid, fscreatecon |-> fscreatecon, fs |-> fs]

\* make_device that returns right after a mknod that failed
make_device_steps_early_return(fs, path, block, major, minor, links, perms, env) ==
    LET pm == get_device_perm(path, links, perms)
    IN  IF ~env.sel_ok THEN <<MdStep("return", AID_ROOT, NULL, fs)>>
        ELSE IF path \in DOMAIN fs \/ ~env.mknod_ok
        THEN <<MdStep("setfscreatecon", AID_ROOT, env.secontext, fs),
               MdStep("setegid", pm.gid, env.secontext, fs),
               MdStep("mknod", pm.gid, env.secontext, fs)>>
        ELSE LET made == FsPut(fs, path,
                               Node(block, [pm EXCEPT !.uid = 0], major,
                                    minor, env.secontext))
                 owned == FsPut(made, path, [made[path] EXCEPT !.uid = pm.uid])
             IN  <<MdStep("setfscreatecon", AID_ROOT, env.secontext, fs),
                   MdStep("setegid", pm.gid, env.secontext, fs),
                   MdStep("mknod", pm.gid, env.secontext, made),
                   MdStep("chown", pm.gid, env.secontext, owned),
                   MdStep("setegid", AID_ROOT, env.secontext, owned),
                   MdStep("setfscreatecon", AID_ROOT, NULL, owned)>>

\* mknod(path, mode, dev) under effective gid egid and creation label con:
\* EEXIST when the path is there, and it may fail otherwise
MdMknod(fs, path, block, major, minor, perm, egid, con, env) ==
    IF path \notin DOMAIN fs /\ env.mknod_ok
    THEN FsPut(fs, path, Node(block, [uid |-> 0, gid |-> egid, perm |-> perm],
                              major, minor, con))
    ELSE fs

\* lsetfilecon(path, secontext), called when mknod said EEXIST
MdRelabel(fs, path, existed, con) ==
    IF existed THEN FsPut(fs, path, [fs[path] EXCEPT !.label = con]) ELSE fs

\* chown(path, uid, -1)
MdChown(fs, path, uid) ==
    IF path \in DOMAIN fs THEN FsPut(fs, path, [fs[path] EXCEPT !.uid = uid])
    ELSE fs

\* make_device, statement by statement, in a process whose effective gid is
\* root and whose file-creation label is not set: no node without a label;
\* the node is made under the target gid and the label; on EEXIST the label
\* is set on what is there; chown of the uid wherever the path exists; then
\* the gid and the creation label are put back
make_device_steps(fs, path, block, major, minor, links, perms, env) ==
    LET pm      == get_device_perm(path, links, perms)
        con     == env.secontext
        existed == path \in DOMAIN fs
        made    == MdMknod(fs, path, block, major, minor, pm.perm, pm.gid,
                           con, env)
        owned   == MdChown(MdRelabel(made, path, existed, con), path, pm.uid)
    IN  IF ~env.sel_ok THEN <<MdStep("return", AID_ROOT, NULL, fs)>>
        ELSE <<MdStep("setfscreatecon", AID_ROOT, con, fs),
               MdStep("setegid", pm.gid, con, fs),
               MdStep("mknod", pm.gid, con, made)>>
             \o (IF existed
                 THEN <<MdStep("lsetfilecon", pm.gid, con,
                               MdRelabel(made, path, existed, con))>>
                 ELSE <<>>)
             \o <<MdStep("chown", pm.gid, con, owned),
                  MdStep("setegid", AID_ROOT, con, owned),
                  MdStep("setfscreatecon", AID_ROOT, NULL, owned)>>

\* make_device: /dev when it has returned
make_device(fs, path, block, major, minor, links, perms, env) ==
    LET steps == make_device_steps(fs, path, block, major, minor, links,
                                   perms, env)
    IN  steps[Len(steps)].fs

\* make_link_init (util): the link exists afterwards and points at oldpath
make_link_init(fs, oldpath, newpath) == FsPut(fs, newpath, Symlink(oldpath))

\* remove_link (util): the symlink is deleted
remove_link(fs, oldpath, newpath) ==
    IF newpath \in DOMAIN fs /\ fs[newpath].kind = "link"
    THEN FsDel(fs, newpath) ELSE fs

RECURSIVE MakeLinks(_, _, _, _)
MakeLinks(fs, devpath, links, i) ==
    IF i > Len(links) THEN fs
    ELSE MakeLinks(make_link_init(fs, devpath, links[i]), devpath, links, i + 1)

RECURSIVE RemoveLinks(_, _, _, _)
RemoveLinks(fs, devpath, links, i) ==
    IF i > Len(links) THEN fs
    ELSE RemoveLinks(remove_link(fs, devpath, links[i]), devpath, links, i + 1)

\* handle_device: dev_fs after the event
handle_device(fs, action, devpath, block, major, minor, links, perms, env) ==
    IF action = "add"
    THEN MakeLinks(make_device(fs, devpath, block, major, minor, links,
                               perms, env),
                   devpath, links, 1)
    ELSE IF action = "remove"
    THEN FsDel(RemoveLinks(fs, devpath, links, 1), devpath)
    ELSE fs

\* handle_block_device_event: dev_fs after the event
handle_block_device_event(u, env) ==
    LET name == parse_device_name(u, NameLen)
    IN  IF name = NULL THEN dev_fs
        ELSE LET devpath == Snprintf("/dev/block/" \o name, DEVPATH_LEN)
                 links   == IF StartsWith(u.path, "/devices/")
                            THEN get_block_device_symlinks(u, platform_names)
                            ELSE <<>>
             IN  handle_device(dev_fs, u.action, devpath, TRUE, u.major,
                               u.minor, links, dev_perms, env)

\* handle_generic_device_event: dev_fs after the event
handle_generic_device_event(u, env) ==
    LET devpath == GenericDevpath(u)
    IN  IF devpath = NULL THEN dev_fs
        ELSE handle_device(dev_fs, u.action, devpath, FALSE, u.major, u.minor,
                           get_character_device_symlinks(u, platform_names),
                           dev_perms, env)

\* handle_platform_device_event: the registry after the event
handle_platform_device_event(u) ==
    IF u.action = "add" THEN add_platform_device(u.path, platform_names)
    ELSE IF u.action = "remove"
    THEN remove_platform_device(u.path, platform_names)
    ELSE platform_names

\* fixup_sys_perms: the sysfs attributes after the event
fixup_sys_perms(upath) == FixupScan(upath, sys_perms, 1, sysfs_attrs)

\* the links array handle_block_device_event hands to handle_device
BlockLinks(u) ==
    IF parse_device_name(u, NameLen) # NULL /\ StartsWith(u.path, "/devices/")
    THEN get_block_device_symlinks(u, platform_names)
    ELSE <<>>

\* the device node path the event's handler hands to handle_device, NULL
\* when it does not get that far
DevpathOf(u) ==
    IF StartsWith(u.subsystem, "block")
    THEN (IF parse_device_name(u, NameLen) = NULL THEN NULL
          ELSE Snprintf("/dev/block/" \o parse_device_name(u, NameLen),
                        DEVPATH_LEN))
    ELSE IF StartsWith(u.subsystem, "platform") THEN NULL
    ELSE GenericDevpath(u)

\* the links array the event's handler hands to handle_device
LinksOf(u) ==
    IF StartsWith(u.subsystem, "block") THEN BlockLinks(u)
    ELSE IF StartsWith(u.subsystem, "platform") THEN <<>>
    ELSE get_character_device_symlinks(u, platform_names)

NoPermCall ==
    [called |-> FALSE, path |-> "", links |-> <<>>, res |-> DefaultPerm,
     nrules |-> 0]

\* history: no device add is remembered; `on` says whether the specification
\* records adds at all
NoAdded ==
    [on |-> FALSE, ev |-> EmptyUevent, devpath |-> NULL, links |-> <<>>]

NoHist ==
    [ev |-> EmptyUevent, links |-> <<>>, removed |-> {}, pm |-> NoPermCall,
     added |-> NoAdded]

\* history: the call of get_device_perm (make_device's first step) in the
\* last event, with the length the rule list had
PermCallAfter(u, links) ==
    IF u.action # "add" THEN NoPermCall
    ELSE LET devpath == DevpathOf(u)
         IN  IF devpath = NULL THEN NoPermCall
             ELSE [called |-> TRUE, path |-> devpath, links |-> links,
                   res |-> get_device_perm(devpath, links, dev_perms),
                   nrules |-> Len(dev_perms)]

\* history: a block event becomes the last block event; a platform event
\* forgets the last block event and notes whether its devpath was removed
LastEventAfter(u) ==
    IF StartsWith(u.subsystem, "block")
    THEN LET links == BlockLinks(u)
         IN  [hist EXCEPT !.ev = u, !.links = links,
                          !.pm = PermCallAfter(u, links)]
    ELSE IF StartsWith(u.subsystem, "platform")
    THEN [ev |-> EmptyUevent, links |-> <<>>,
          removed |-> IF u.action = "remove" THEN hist.removed \cup {u.path}
                      ELSE IF u.action = "add" THEN hist.removed \ {u.path}
                      ELSE hist.removed,
          pm |-> NoPermCall, added |-> hist.added]
    ELSE [hist EXCEPT !.pm = PermCallAfter(u, LinksOf(u))]

\* history: where adds are recorded, the add of a device node is remembered,
\* with the node and the links handle_device is given, over the platform
\* events that follow it and until the next event of a device node
AddedAfter(u) ==
    IF ~hist.added.on \/ StartsWith(u.subsystem, "platform") THEN hist.added
    ELSE IF u.action = "add" /\ DevpathOf(u) # NULL
    THEN [on |-> TRUE, ev |-> u, devpath |-> DevpathOf(u),
          links |-> LinksOf(u)]
    ELSE [NoAdded EXCEPT !.on = TRUE]

HistAfter(u) == [LastEventAfter(u) EXCEPT !.added = AddedAfter(u)]

(***************************************************************************)
(* handle_device_event: module loading for add, the sysfs fix-up for add,  *)
(* change and online, then exactly one of the three handlers.              *)
(***************************************************************************)
\* the subsystem compared as a whole string
subsystem_equals(u, name) == u.subsystem = name

\* !strncmp(uevent->subsystem, name, strlen(name))
subsystem_is(u, name) == StartsWith(u.subsystem, name)

handle_device_event(u, env) ==
    /\ IF u.action = "add" THEN handle_module_loading(u.modalias, env.failing)
       ELSE UNCHANGED module_vars
    /\ sysfs_attrs' = IF u.action \in {"add", "change", "online"}
                      THEN fixup_sys_perms(u.path) ELSE sysfs_attrs
    /\ IF subsystem_is(u, "block")
       THEN /\ dev_fs' = handle_block_device_event(u, env)
            /\ UNCHANGED platform_names
       ELSE IF subsystem_is(u, "platform")
       THEN /\ platform_names' = handle_platform_device_event(u)
            /\ Len(platform_names') <= MaxPlatform
            /\ UNCHANGED dev_fs
       ELSE /\ dev_fs' = handle_generic_device_event(u, env)
            /\ UNCHANGED platform_names
    /\ hist' = HistAfter(u)

\* the variables handle_device_event may change
mgr_vars == <<module_vars, dev_vars, hist>>

(***************************************************************************)
(* Initial values shared by the specifications.                            *)
(***************************************************************************)
NoMsg == [id |-> 0, n |-> 0, recs |-> <<>>, cause |-> 0]

InitModuleLists ==
    /\ modules_aliases_map = <<>>
    /\ modules_blacklist = <<>>
    /\ deferred_module_loading_list = <<>>
    /\ insmodded = {}

InitDev ==
    /\ platform_names = <<>>
    /\ dev_fs = [p \in {} |-> Symlink("")]
    /\ sysfs_attrs = [p \in {} |-> DefaultPerm]

InitSock ==
    /\ socket = <<>>
    /\ arrived = 0
    /\ hd = [pc |-> "idle", child |-> FALSE, caller |-> "main", msg |-> NoMsg,
             n |-> 0]
    /\ recv_log = <<>>
    /\ handled_log = <<>>

(***************************************************************************)
(* The firmware handler.  fw is process_firmware_event's frame: loading    *)
(* and data are the writes made to the two sysfs files of the event, fail  *)
(* names what went wrong.                                                  *)
(***************************************************************************)
firmware_dirs == <<"/etc/firmware", "/vendor/firmware", "/firmware/image">>

PAGE_SIZE == 4096

\* the booting marker is taken to be there whatever /dev holds
is_booting_always == TRUE

\* is_booting: access("/dev/.booting", F_OK) == 0
is_booting == booting

FwIdle ==
    [pc |-> "idle", booting |-> FALSE, opened |-> FALSE, fw_fd |-> -1,
     st_size |-> 0, file_len |-> 0, pos |-> 0, len_to_copy |-> 0, ret |-> 0,
     fail |-> "", slept |-> FALSE, loading |-> <<>>, data |-> <<>>]

\* process_firmware_event up to try_loading_again: is_booting is read and
\* the two sysfs files are opened; without both the handler is over
process_firmware_event(u, loading_ok, data_ok) ==
    IF loading_ok /\ data_ok
    THEN [FwIdle EXCEPT !.pc = "search", !.booting = is_booting,
                        !.opened = TRUE]
    ELSE [FwIdle EXCEPT !.pc = "done", !.booting = is_booting]

\* the action of the event is not looked at
handle_firmware_event_any_action(u, loading_ok, data_ok) ==
    IF u.subsystem # "firmware" THEN fw
    ELSE process_firmware_event(u, loading_ok, data_ok)

\* handle_firmware_event: only subsystem firmware, action add
handle_firmware_event(u, loading_ok, data_ok) ==
    IF u.subsystem # "firmware" THEN fw
    ELSE IF u.action # "add" THEN fw
    ELSE process_firmware_event(u, loading_ok, data_ok)

\* load_firmware's end: "0" or "-1" goes to loading
LoadFirmwareEnd(f, ret, fail) ==
    [f EXCEPT !.ret = ret, !.fail = fail, !.pc = "done",
              !.loading = Append(f.loading, IF ret = 0 THEN "0" ELSE "-1")]

\* load_firmware's start: fstat, then "1" to loading
load_firmware(f, fstat_ok, size, file_len) ==
    IF ~fstat_ok
    THEN [f EXCEPT !.ret = -1, !.fail = "fstat", !.pc = "done"]
    ELSE LET g == [f EXCEPT !.st_size = size, !.file_len = file_len,
                            !.len_to_copy = size,
                            !.loading = Append(f.loading, "1"),
                            !.pc = "copy"]
         IN  IF size > 0 THEN g ELSE LoadFirmwareEnd(g, 0, "")

\* a turn of the loop that takes end-of-file before st_size bytes for a failure
LoadFirmwareTurnShortIsError(f, read_ok, write_ok) ==
    LET left == IF f.pos < f.file_len THEN f.file_len - f.pos ELSE 0
        nr   == IF ~read_ok THEN -1
                ELSE IF left < PAGE_SIZE THEN left ELSE PAGE_SIZE
    IN  IF nr = 0 THEN LoadFirmwareEnd(f, -1, "short")
        ELSE IF nr < 0 THEN LoadFirmwareEnd(f, -1, "read")
        ELSE IF ~write_ok THEN LoadFirmwareEnd(f, -1, "write")
        ELSE LET g == [f EXCEPT !.data = Append(f.data, [off |-> f.pos, n |-> nr]),
                                !.pos = f.pos + nr,
                                !.len_to_copy = f.len_to_copy - nr]
             IN  IF g.len_to_copy > 0 THEN g ELSE LoadFirmwareEnd(g, 0, "")

\* one turn of load_firmware's loop: read a page, write it to data
LoadFirmwareTurn(f, read_ok, write_ok) ==
    LET left == IF f.pos < f.file_len THEN f.file_len - f.pos ELSE 0
        nr   == IF ~read_ok THEN -1
                ELSE IF left < PAGE_SIZE THEN left ELSE PAGE_SIZE
    IN  IF nr = 0 THEN LoadFirmwareEnd(f, 0, "")
        ELSE IF nr < 0 THEN LoadFirmwareEnd(f, -1, "read")
        ELSE IF ~write_ok THEN LoadFirmwareEnd(f, -1, "write")
        ELSE LET g == [f EXCEPT !.data = Append(f.data, [off |-> f.pos, n |-> nr]),
                                !.pos = f.pos + nr,
                                !.len_to_copy = f.len_to_copy - nr]
             IN  IF g.len_to_copy > 0 THEN g ELSE LoadFirmwareEnd(g, 0, "")

\* the search of try_loading_again: the first directory that holds the file
\* is loaded from; with none, sleep while booting was seen, else "-1"
FirmwareFound == {i \in 1..Len(firmware_dirs) : firmware_dirs[i] \in fw_dirs}

FwSearchStep ==
    /\ fw.pc = "search"
    /\ IF FirmwareFound # {}
       THEN \E fstat_ok \in BOOLEAN, size \in {0, 100, PAGE_SIZE + 904},
               file_len \in {0, 100, PAGE_SIZE + 904} :
               fw' = load_firmware(
                        [fw EXCEPT !.fw_fd = CHOOSE i \in FirmwareFound :
                                        \A j \in FirmwareFound : i <= j],
                        fstat_ok, size, file_len)
       ELSE IF fw.booting
       THEN fw' = [fw EXCEPT !.pc = "sleep"]
       ELSE fw' = [fw EXCEPT !.pc = "done", !.fail = "notfound",
                             !.loading = Append(fw.loading, "-1")]
    /\ UNCHANGED <<module_vars, perm_vars, dev_vars, file_vars, sock_vars,
                   cb_vars, hist>>

\* usleep is over: is_booting is read again, then try_loading_again
FwWake ==
    /\ fw.pc = "sleep"
    /\ fw' = [fw EXCEPT !.booting = is_booting, !.slept = TRUE,
                         !.pc = "search"]
    /\ UNCHANGED <<module_vars, perm_vars, dev_vars, file_vars, sock_vars,
                   cb_vars, hist>>

FwCopyStep ==
    /\ fw.pc = "copy"
    /\ \E read_ok \in BOOLEAN, write_ok \in BOOLEAN :
          fw' = LoadFirmwareTurn(fw, read_ok, write_ok)
    /\ UNCHANGED <<module_vars, perm_vars, dev_vars, file_vars, sock_vars,
                   cb_vars, hist>>

\* the environment of an event that goes well
EnvOK(failing) ==
    [failing |-> failing, sel_ok |-> TRUE, mknod_ok |-> TRUE,
     secontext |-> "u:object_r:device:s0"]

(***************************************************************************)
(* device_init's last step: the traversal is over, the deferred queue is   *)
(* drained and COLDBOOT_DONE is created.                                   *)
(***************************************************************************)
DeviceInitFinish(failing) ==
    /\ di.pc = "coldboot"
    /\ di.roots = <<>>
    /\ walk = <<>>
    /\ hd.pc = "idle"
    /\ handle_deferred_module_loading(failing)
    /\ coldboot_done' = TRUE
    /\ di' = [di EXCEPT !.pc = "none"]
    /\ UNCHANGED <<perm_vars, dev_vars, booting, alias_file, blacklist_file,
                   fw_dirs, sock_vars, walk, uevent_writes, fw, hist>>

(***************************************************************************)
(* The netlink receiver.  A message is [id, n, recs, cause]: n bytes, the  *)
(* NUL-terminated records recs, cause the number of the uevent write that  *)
(* made the kernel send it (0: none).  hd is handle_device_fd's frame.     *)
(***************************************************************************)
UEVENT_MSG_LEN == 2048

\* uevent_kernel_multicast_recv (libcutils): the oldest datagram queued, cut
\* at the buffer length; nothing when the socket is empty or not open
uevent_kernel_multicast_recv(sock, fd_ok) ==
    IF ~fd_ok \/ sock = <<>>
    THEN [n |-> -1, msg |-> NoMsg, rest |-> sock]
    ELSE [n |-> IF Head(sock).n > UEVENT_MSG_LEN THEN UEVENT_MSG_LEN
                ELSE Head(sock).n,
          msg |-> Head(sock), rest |-> Tail(sock)]

\* the overflow test that never discards a message of exactly the cap
is_overflow_above_cap(n) == n > UEVENT_MSG_LEN

\* if (n >= UEVENT_MSG_LEN) continue: a message that fills the buffer
is_overflow(n) == n >= UEVENT_MSG_LEN

\* handle_device_fd when a message is done with: once
hd_return(h) == [h EXCEPT !.pc = "idle", !.msg = NoMsg, !.n = 0]

\* handle_device_fd when a message is done with: back to the while condition
hd_loop(h) == [h EXCEPT !.pc = "recv", !.msg = NoMsg, !.n = 0]

\* while ((n = uevent_kernel_multicast_recv(...)) > 0)
HdRecv ==
    /\ hd.pc = "recv"
    /\ LET r == uevent_kernel_multicast_recv(socket, di.fd)
       IN  IF r.n > 0
           THEN /\ socket' = r.rest
                /\ hd' = [hd EXCEPT !.pc = "got", !.msg = r.msg, !.n = r.n]
                /\ recv_log' = Append(recv_log, r.msg.id)
           ELSE /\ hd' = [hd EXCEPT !.pc = "idle", !.msg = NoMsg, !.n = 0]
                /\ UNCHANGED <<socket, recv_log>>
    /\ UNCHANGED <<module_vars, perm_vars, dev_vars, file_vars, arrived,
                   handled_log, cb_vars, fw, hist>>

\* the body of the loop: overflow discard, parse_event, and the handler of
\* the context
HdDispatch ==
    /\ hd.pc = "got"
    /\ IF is_overflow(hd.n)
       THEN /\ handled_log' = Append(handled_log,
                                     [id |-> hd.msg.id, by |-> "discard"])
            /\ hd' = hd_loop(hd)
            /\ UNCHANGED <<module_vars, dev_vars, fw, hist>>
       ELSE IF hd.child
       THEN /\ \E loading_ok \in BOOLEAN :
                 fw' = handle_firmware_event(parse_event(hd.msg.recs),
                                             loading_ok, TRUE)
            /\ IF fw' # fw /\ fw'.pc # "done"
               THEN /\ hd' = [hd EXCEPT !.pc = "fw"]
                    /\ UNCHANGED handled_log
               ELSE /\ hd' = hd_loop(hd)
                    /\ handled_log' = Append(handled_log,
                                             [id |-> hd.msg.id, by |-> "firmware"])
            /\ UNCHANGED <<module_vars, dev_vars, hist>>
       ELSE /\ handle_device_event(parse_event(hd.msg.recs), EnvOK({}))
            /\ handled_log' = Append(handled_log,
                                     [id |-> hd.msg.id, by |-> "device"])
            /\ hd' = hd_loop(hd)
            /\ UNCHANGED fw
    /\ UNCHANGED <<perm_vars, file_vars, socket, arrived, recv_log, cb_vars>>

\* handle_firmware_event has returned
HdFirmwareDone ==
    /\ hd.pc = "fw"
    /\ fw.pc = "done"
    /\ handled_log' = Append(handled_log, [id |-> hd.msg.id, by |-> "firmware"])
    /\ hd' = hd_loop(hd)
    /\ UNCHANGED <<module_vars, perm_vars, dev_vars, file_vars, socket,
                   arrived, recv_log, cb_vars, fw, hist>>

\* the caller's poll reports the socket readable: handle_device_fd(child)
MainDrain ==
    /\ di.pc = "none"
    /\ di.fd
    /\ hd.pc = "idle"
    /\ socket # <<>>
    /\ hd' = [pc |-> "recv", child |-> di.child, caller |-> "main",
              msg |-> NoMsg, n |-> 0]
    /\ UNCHANGED <<module_vars, perm_vars, dev_vars, file_vars, socket,
                   arrived, recv_log, handled_log, cb_vars, fw, hist>>

(***************************************************************************)
(* device_init and the coldboot walker.  SysTree is the part of /sys       *)
(* walked: per directory whether it has a uevent file, the message the     *)
(* kernel sends when add is written to it, and what readdir returns.       *)
(***************************************************************************)
ColdbootRoots == <<"/sys/class", "/sys/block", "/sys/devices">>

\* bytes of a message: every record and its NUL
RECURSIVE MsgLen(_)
MsgLen(recs) == IF recs = <<>> THEN 0 ELSE Len(Head(recs)) + 1 + MsgLen(Tail(recs))

KMsg(action, path, subsystem, more) ==
    <<action \o "@" \o path, "ACTION=" \o action, "DEVPATH=" \o path,
      "SUBSYSTEM=" \o subsystem>> \o more

Dirent(name, is_dir) == [d_name |-> name, is_dir |-> is_dir]

SysDir(uevent, sends, entries) ==
    [uevent |-> uevent, sends |-> sends, entries |-> entries]

SysTree ==
    [d \in {"/sys/class", "/sys/class/tty", "/sys/block", "/sys/devices",
            "/sys/devices/platform", "/sys/devices/platform/soc.0",
            "/sys/devices/platform/soc.0/mmcblk0p3"} |->
      CASE d = "/sys/class" ->
             SysDir(FALSE, <<>>, <<Dirent(".", TRUE), Dirent("..", TRUE),
                                   Dirent("tty", TRUE)>>)
        [] d = "/sys/class/tty" ->
             SysDir(FALSE, <<>>, <<Dirent("ttyS0", FALSE)>>)
        [] d = "/sys/block" ->
             SysDir(FALSE, <<>>, <<Dirent("mmcblk0", FALSE)>>)
        [] d = "/sys/devices" ->
             SysDir(FALSE, <<>>, <<Dirent("platform", TRUE)>>)
        [] d = "/sys/devices/platform" ->
             SysDir(FALSE, <<>>, <<Dirent(".", TRUE), Dirent("soc.0", TRUE),
                                   Dirent("uevent", FALSE)>>)
        [] d = "/sys/devices/platform/soc.0" ->
             SysDir(TRUE,
                    KMsg("add", "/devices/platform/soc.0", "platform", <<>>),
                    <<Dirent("uevent", FALSE), Dirent("mmcblk0p3", TRUE)>>)
        [] OTHER ->
             SysDir(TRUE,
                    KMsg("add", "/devices/platform/soc.0/mmcblk0p3", "block",
                         <<"MAJOR=179", "MINOR=3", "PARTN=3",
                           "PARTNAME=system">>),
                    <<Dirent("uevent", FALSE)>>)]

\* device_init returns before the traversal: in the child, or with the
\* sentinel there
device_init_child_only(child, done) == child

device_init_skips(child, done) == child \/ done

\* device_init up to the traversal: a new socket, then the two early returns
DeviceInitCall ==
    /\ di.pc = "none"
    /\ hd.pc = "idle"
    /\ di.calls < MaxInits
    /\ \E child \in BOOLEAN, open_ok \in BOOLEAN :
          LET go == open_ok /\ ~device_init_skips(child, coldboot_done)
          IN  di' = [pc |-> IF go THEN "coldboot" ELSE "none",
                     child |-> child,
                     roots |-> IF go THEN ColdbootRoots ELSE <<>>,
                     fd |-> open_ok, calls |-> di.calls + 1]
    /\ socket' = <<>>
    /\ UNCHANGED <<module_vars, perm_vars, dev_vars, file_vars, arrived, hd,
                   recv_log, handled_log, walk, uevent_writes, fw, hist>>

\* coldboot(path): opendir, do_coldboot
ColdbootRoot ==
    /\ di.pc = "coldboot"
    /\ walk = <<>>
    /\ di.roots # <<>>
    /\ hd.pc = "idle"
    /\ walk' = IF Head(di.roots) \in DOMAIN SysTree
               THEN <<[dir |-> Head(di.roots), pc |-> "open", idx |-> 0]>>
               ELSE <<>>
    /\ di' = [di EXCEPT !.roots = Tail(di.roots)]
    /\ UNCHANGED <<module_vars, perm_vars, dev_vars, file_vars, sock_vars,
                   uevent_writes, fw, hist>>

WalkTop == walk[Len(walk)]

WalkSet(f) == [walk EXCEPT ![Len(walk)] = f]

\* handle_device_fd is not called after the write
coldboot_no_drain ==
    [pc |-> "idle", child |-> FALSE, caller |-> "coldboot", msg |-> NoMsg,
     n |-> 0]

\* handle_device_fd() after the write
coldboot_drain ==
    [pc |-> "recv", child |-> FALSE, caller |-> "coldboot", msg |-> NoMsg,
     n |-> 0]

\* do_coldboot's head: add is written to the directory's uevent file, the
\* kernel queues what it sends for it, and the socket is drained
WalkPoke ==
    /\ walk # <<>>
    /\ WalkTop.pc = "open"
    /\ IF SysTree[WalkTop.dir].uevent
       THEN /\ uevent_writes' =
                  Append(uevent_writes,
                         [dir |-> WalkTop.dir, id |-> arrived + 1])
            /\ socket' =
                  Append(socket,
                         [id |-> arrived + 1,
                          n |-> MsgLen(SysTree[WalkTop.dir].sends),
                          recs |-> SysTree[WalkTop.dir].sends,
                          cause |-> Len(uevent_writes) + 1])
            /\ arrived' = arrived + 1
            /\ hd' = coldboot_drain
            /\ walk' = WalkSet([WalkTop EXCEPT !.pc = "drain"])
       ELSE /\ walk' = WalkSet([WalkTop EXCEPT !.pc = "readdir"])
            /\ UNCHANGED <<uevent_writes, socket, arrived, hd>>
    /\ UNCHANGED <<module_vars, perm_vars, dev_vars, file_vars, recv_log,
                   handled_log, di, fw, hist>>

\* handle_device_fd has returned to do_coldboot
WalkResume ==
    /\ walk # <<>>
    /\ WalkTop.pc = "drain"
    /\ hd.pc = "idle"
    /\ walk' = WalkSet([WalkTop EXCEPT !.pc = "readdir"])
    /\ UNCHANGED <<module_vars, perm_vars, dev_vars, file_vars, sock_vars,
                   di, uevent_writes, fw, hist>>

\* every entry is taken for a directory to walk, "." and ".." included
do_coldboot_skips_nothing(de) == FALSE

\* de->d_type != DT_DIR || de->d_name[0] == '.'
do_coldboot_skips(de) == ~de.is_dir \/ CharAt(de.d_name, 1) = "."

\* one readdir: the end of the directory returns; entries that are not
\* directories or start with a dot are passed; the others are walked
WalkReaddir ==
    /\ walk # <<>>
    /\ WalkTop.pc = "readdir"
    /\ LET es == SysTree[WalkTop.dir].entries
           i  == WalkTop.idx + 1
       IN  IF i > Len(es)
           THEN walk' = SubSeq(walk, 1, Len(walk) - 1)
           ELSE IF do_coldboot_skips(es[i])
           THEN walk' = WalkSet([WalkTop EXCEPT !.idx = i])
           ELSE walk' = Append(WalkSet([WalkTop EXCEPT !.idx = i]),
                               [dir |-> WalkTop.dir \o "/" \o es[i].d_name,
                                pc |-> "open", idx |-> 0])
    /\ UNCHANGED <<module_vars, perm_vars, dev_vars, file_vars, sock_vars,
                   di, uevent_writes, fw, hist>>

(***************************************************************************)
(* The module alias engine under add events, the end of coldboot, the end  *)
(* of booting, the appearance of modules.alias and the modprobe helper.    *)
(***************************************************************************)
Modules == {"pcihost", "button", "wifi"}

Modaliases == {"acpi:PNP0A03", "usb:v1p2"}

\* the modules whose insmod fails during one event
FailingSets == {{}, {"pcihost"}, Modules}

AliasLines ==
    <<[pattern |-> "acpi:PNP0A*", name |-> "pcihost"],
      [pattern |-> "usb:v1*",     name |-> "wifi"],
      [pattern |-> "acpi:*",      name |-> "button"]>>

\* modules.alias as it may be found: the lines above, or a file without any
AliasFiles == {AliasLines, <<>>}

\* modules.blacklist as it may be found; a module has one line at most
BlacklistFiles ==
    { <<>>,
      <<[name |-> "pcihost", deferred |-> FALSE],
        [name |-> "wifi",    deferred |-> TRUE]>>,
      <<[name |-> "button",  deferred |-> FALSE],
        [name |-> "pcihost", deferred |-> TRUE]>> }

Uev(action, path, subsystem) ==
    [EmptyUevent EXCEPT !.action = action, !.path = path,
                        !.subsystem = subsystem]

\* events of devices without a node (no MAJOR/MINOR)
ModuleEvents ==
    {[Uev("add", "/devices/pci0000:00/0000:00:1d.0", "pci") EXCEPT !.modalias = m] :
        m \in Modaliases \cup {NULL}}
    \cup {[Uev("change", "/devices/pci0000:00/0000:00:1d.0", "pci")
             EXCEPT !.modalias = "acpi:PNP0A03"]}

InitModules ==
    /\ InitModuleLists
    /\ InitDev
    /\ InitSock
    /\ dev_perms = <<>>
    /\ sys_perms = <<>>
    /\ booting \in BOOLEAN
    /\ alias_file \in {[present |-> FALSE, lines |-> <<>>]}
                      \cup {[present |-> TRUE, lines |-> f] : f \in AliasFiles}
    /\ blacklist_file \in {[present |-> FALSE, lines |-> <<>>]}
                      \cup {[present |-> TRUE, lines |-> f] : f \in BlacklistFiles}
    /\ coldboot_done \in BOOLEAN
    /\ di = [pc |-> IF coldboot_done THEN "none" ELSE "coldboot",
             child |-> FALSE, roots |-> <<>>,
             fd |-> TRUE, calls |-> 1]
    /\ walk = <<>>
    /\ uevent_writes = <<>>
    /\ fw_dirs = {}
    /\ fw = FwIdle
    /\ hist = NoHist

\* one uevent handled by handle_device_event
ModuleEvent ==
    \E u \in ModuleEvents, failing \in FailingSets :
        /\ handle_device_event(u, EnvOK(failing))
        /\ UNCHANGED <<perm_vars, file_vars, sock_vars, cb_vars, fw>>

ColdbootFinish ==
    \E failing \in FailingSets : DeviceInitFinish(failing)

\* init removes /dev/.booting
BootingEnds ==
    /\ booting
    /\ booting' = FALSE
    /\ UNCHANGED <<module_vars, perm_vars, dev_vars, alias_file,
                   blacklist_file, coldboot_done, fw_dirs, sock_vars, cb_vars,
                   fw, hist>>

\* the file system holding modules.alias is mounted
AliasFileAppears ==
    /\ ~alias_file.present
    /\ \E f \in AliasFiles : alias_file' = [present |-> TRUE, lines |-> f]
    /\ UNCHANGED <<module_vars, perm_vars, dev_vars, booting, blacklist_file,
                   coldboot_done, fw_dirs, sock_vars, cb_vars, fw, hist>>

\* the kernel runs the modprobe helper on a MODALIAS or on a module name
ProbeArgs == {"acpi:PNP0A03", "pcihost"}

ModuleProbe ==
    \E arg \in ProbeArgs, failing \in FailingSets :
        /\ module_probe(arg, failing)
        /\ UNCHANGED <<perm_vars, dev_vars, file_vars, sock_vars, cb_vars, fw,
                       hist>>

NextModules ==
    \/ ModuleEvent
    \/ ColdbootFinish
    \/ BootingEnds
    \/ AliasFileAppears
    \/ ModuleProbe

SpecModules == InitModules /\ [][NextModules]_vars

\* the same, where device_init goes on to its end, booting ends and the file
\* system holding modules.alias gets mounted
SpecModulesFair ==
    /\ InitModules
    /\ [][NextModules]_vars
    /\ WF_vars(ColdbootFinish)
    /\ WF_vars(BootingEnds)
    /\ WF_vars(AliasFileAppears)

(***************************************************************************)
(* The platform registry and the block handler under platform add/remove   *)
(* events and block events.                                                *)
(***************************************************************************)
\* the rule list as the rule files left it
BootDevPerms ==
    <<[name |-> "/dev/block/mmcblk*", attr |-> NULL, perm |-> 432, uid |-> 0,
       gid |-> 1000, prefix |-> FALSE, wildcard |-> TRUE]>>

\* a platform device and a platform device below it
PlatformPaths == {"/devices/platform/soc.0", "/devices/platform/soc.0/mmc.1"}

PlatformEvents ==
    {Uev(a, d, "platform") : a \in {"add", "remove"}, d \in PlatformPaths}

BlockEv(action, path, major, minor, partn, partname) ==
    [Uev(action, path, "block") EXCEPT !.major = major, !.minor = minor,
                                       !.partition_num = partn,
                                       !.partition_name = partname]

SocPart == "/devices/platform/soc.0/mmc.1/mmcblk0p3"
PciPart == "/devices/pci0000:00/0000:00:1f.2/host0/sda1"
\* a partition whose name has 65 characters
LongPart == "/devices/platform/soc.0/mmcblk0p01234567890123456789012345678901234567890123456789abcdefg"

BlockEvents ==
    { BlockEv("add",    SocPart, 179, 3, 3, "system"),
      BlockEv("add",    SocPart, 179, 3, -1, "user data/bad"),
      BlockEv("add",    SocPart, -1, -1, 3, "system"),
      BlockEv("add",    LongPart, 179, 4, -1, "cache"),
      BlockEv("add",    PciPart, 8, 1, 1, NULL),
      BlockEv("remove", SocPart, 179, 3, 3, "system") }

\* what the outside may decide during a block event
BlockEnvs ==
    { EnvOK({}),
      [EnvOK({}) EXCEPT !.sel_ok = FALSE],
      [EnvOK({}) EXCEPT !.mknod_ok = FALSE] }

InitPlatform ==
    /\ InitModuleLists
    /\ InitDev
    /\ InitSock
    /\ dev_perms = BootDevPerms
    /\ sys_perms = <<>>
    /\ booting = TRUE
    /\ alias_file = [present |-> FALSE, lines |-> <<>>]
    /\ blacklist_file = [present |-> FALSE, lines |-> <<>>]
    /\ coldboot_done = FALSE
    /\ di = [pc |-> "coldboot", child |-> FALSE, roots |-> <<>>,
             fd |-> TRUE, calls |-> 1]
    /\ walk = <<>>
    /\ uevent_writes = <<>>
    /\ fw_dirs = {}
    /\ fw = FwIdle
    /\ hist = NoHist

PlatformEvent ==
    \E u \in PlatformEvents :
        /\ handle_device_event(u, EnvOK({}))
        /\ UNCHANGED <<perm_vars, file_vars, sock_vars, cb_vars, fw>>

BlockEvent ==
    \E u \in BlockEvents, env \in BlockEnvs :
        /\ handle_device_event(u, env)
        /\ UNCHANGED <<perm_vars, file_vars, sock_vars, cb_vars, fw>>

NextPlatform == PlatformEvent \/ BlockEvent

SpecPlatform == InitPlatform /\ [][NextPlatform]_vars

(***************************************************************************)
(* The rule lists under add_dev_perms calls and device add events.  The    *)
(* label lookup fails in these events: get_device_perm runs before it, and *)
(* no node is left in /dev.                                                *)
(***************************************************************************)
Rule(name, attr, perm, uid, gid, prefix, wildcard) ==
    [name |-> name, attr |-> attr, perm |-> perm, uid |-> uid, gid |-> gid,
     prefix |-> prefix, wildcard |-> wildcard]

\* the rules the rule files may hold: exact, prefix, glob, and a sysfs rule
RuleChoices ==
    { Rule("/dev/block/mmcblk0p3", NULL, 432, 1, 1, FALSE, FALSE),
      Rule("/dev/block/", NULL, 416, 2, 2, TRUE, FALSE),
      Rule("/dev/block/platform/*/by-name/system", NULL, 384, 3, 3, FALSE, TRUE),
      Rule("/dev/tty*", NULL, 438, 4, 4, FALSE, TRUE),
      Rule("/sys/devices/platform/soc.0", "enable", 420, 5, 5, FALSE, FALSE) }

\* add_dev_perms: rules with an attribute go to sys_perms, the others to
\* dev_perms, at the tail
add_dev_perms(r) ==
    IF r.attr # NULL
    THEN sys_perms' = Append(sys_perms, r) /\ UNCHANGED dev_perms
    ELSE dev_perms' = Append(dev_perms, r) /\ UNCHANGED sys_perms

PermEvents ==
    { BlockEv("add", "/devices/platform/soc.0/mmcblk0p3", 179, 3, 3, "system"),
      BlockEv("add", "/devices/platform/soc.0/mmcblk0p4", 179, 4, 4, "cache"),
      [Uev("add", "/devices/platform/serial8250/tty/ttyS0", "tty")
          EXCEPT !.major = 4, !.minor = 64],
      [Uev("add", "/devices/virtual/mem/null", "mem")
          EXCEPT !.major = 1, !.minor = 3] }

InitPerms ==
    /\ InitModuleLists
    /\ InitSock
    /\ dev_perms = <<>>
    /\ sys_perms = <<>>
    /\ platform_names = add_platform_device("/devices/platform/soc.0", <<>>)
    /\ dev_fs = [p \in {} |-> Symlink("")]
    /\ sysfs_attrs = [p \in {} |-> DefaultPerm]
    /\ booting = TRUE
    /\ alias_file = [present |-> FALSE, lines |-> <<>>]
    /\ blacklist_file = [present |-> FALSE, lines |-> <<>>]
    /\ coldboot_done = FALSE
    /\ di = [pc |-> "coldboot", child |-> FALSE, roots |-> <<>>,
             fd |-> TRUE, calls |-> 1]
    /\ walk = <<>>
    /\ uevent_writes = <<>>
    /\ fw_dirs = {}
    /\ fw = FwIdle
    /\ hist = NoHist

AddDevPerms ==
    \E r \in RuleChoices :
        /\ Len(dev_perms) + Len(sys_perms) < MaxRules
        /\ add_dev_perms(r)
        /\ UNCHANGED <<module_vars, dev_vars, file_vars, sock_vars, cb_vars,
                       fw, hist>>

PermEvent ==
    \E u \in PermEvents :
        /\ handle_device_event(u, [EnvOK({}) EXCEPT !.sel_ok = FALSE])
        /\ UNCHANGED <<perm_vars, file_vars, sock_vars, cb_vars, fw>>

NextPerms == AddDevPerms \/ PermEvent

SpecPerms == InitPerms /\ [][NextPerms]_vars

(***************************************************************************)
(* The firmware handler under firmware events, while the file systems      *)
(* holding firmware get mounted and booting ends.                          *)
(***************************************************************************)
FirmwareEvents ==
    { [Uev("add", "/devices/platform/soc.0/firmware/wlan", "firmware")
          EXCEPT !.firmware = "wlan.bin"],
      [Uev("remove", "/devices/platform/soc.0/firmware/wlan", "firmware")
          EXCEPT !.firmware = "wlan.bin"],
      Uev("add", "/devices/platform/soc.0", "platform") }

InitFirmware ==
    /\ InitModuleLists
    /\ InitDev
    /\ InitSock
    /\ dev_perms = <<>>
    /\ sys_perms = <<>>
    /\ booting \in BOOLEAN
    /\ alias_file = [present |-> FALSE, lines |-> <<>>]
    /\ blacklist_file = [present |-> FALSE, lines |-> <<>>]
    /\ coldboot_done = TRUE
    /\ di = [pc |-> "none", child |-> TRUE, roots |-> <<>>, fd |-> TRUE,
             calls |-> 1]
    /\ walk = <<>>
    /\ uevent_writes = <<>>
    /\ fw_dirs = {}
    /\ fw = FwIdle
    /\ hist = NoHist

\* the child's handle_device_fd hands an event to handle_firmware_event
FirmwareEvent ==
    /\ fw.pc \in {"idle", "done"}
    /\ \E u \in FirmwareEvents, loading_ok \in BOOLEAN, data_ok \in BOOLEAN :
          fw' = handle_firmware_event(u, loading_ok, data_ok)
    /\ UNCHANGED <<module_vars, perm_vars, dev_vars, file_vars, sock_vars,
                   cb_vars, hist>>

\* a file system holding the firmware file is mounted
FirmwareAppears ==
    \E d \in {firmware_dirs[i] : i \in 1..Len(firmware_dirs)} \ fw_dirs :
        /\ fw_dirs' = fw_dirs \cup {d}
        /\ UNCHANGED <<module_vars, perm_vars, dev_vars, booting, alias_file,
                       blacklist_file, coldboot_done, sock_vars, cb_vars, fw,
                       hist>>

NextFirmware ==
    \/ FirmwareEvent
    \/ FwSearchStep
    \/ FwWake
    \/ FwCopyStep
    \/ BootingEnds
    \/ FirmwareAppears

SpecFirmware == InitFirmware /\ [][NextFirmware]_vars

\* the handler runs in a process of its own that is scheduled: each of its
\* steps (the search, the return of usleep, a turn of the copy) is taken
SpecFirmwareFair ==
    /\ SpecFirmware
    /\ WF_vars(FwSearchStep)
    /\ WF_vars(FwWake)
    /\ WF_vars(FwCopyStep)

(***************************************************************************)
(* device_init calls, the coldboot traversal and the drains of the netlink *)
(* socket, in the parent and in the firmware child, while the kernel sends *)
(* uevents of its own.                                                     *)
(***************************************************************************)
HotplugMsgs ==
    { [recs |-> KMsg("add", "/devices/pci0000:00/0000:00:1d.0", "pci",
                     <<"MODALIAS=acpi:PNP0A03">>),
       oversize |-> FALSE],
      [recs |-> KMsg("add", "/devices/platform/soc.0/firmware/wlan", "firmware",
                     <<"FIRMWARE=wlan.bin">>),
       oversize |-> TRUE],
      [recs |-> KMsg("add", "/devices/platform/soc.0/firmware/wlan", "firmware",
                     <<"FIRMWARE=wlan.bin">>),
       oversize |-> FALSE],
      [recs |-> KMsg("remove", "/devices/platform/soc.0/firmware/wlan",
                     "firmware", <<"FIRMWARE=wlan.bin">>),
       oversize |-> FALSE] }

\* the sysfs rule list as the rule files left it: a prefix rule
BootSysPerms ==
    <<Rule("/sys/devices/platform/soc.0", "enable", 432, 0, 1000, TRUE, FALSE)>>

InitColdboot ==
    /\ InitModuleLists
    /\ InitDev
    /\ InitSock
    /\ dev_perms = <<>>
    /\ sys_perms = BootSysPerms
    /\ booting = FALSE
    /\ alias_file = [present |-> FALSE, lines |-> <<>>]
    /\ blacklist_file = [present |-> FALSE, lines |-> <<>>]
    /\ coldboot_done \in BOOLEAN
    /\ di = [pc |-> "none", child |-> FALSE, roots |-> <<>>, fd |-> FALSE,
             calls |-> 0]
    /\ walk = <<>>
    /\ uevent_writes = <<>>
    /\ fw_dirs = {firmware_dirs[1]}
    /\ fw = FwIdle
    /\ hist = NoHist

\* the kernel sends a uevent of its own; an oversize one fills the receive
\* buffer
KernelHotplug ==
    /\ di.fd
    /\ arrived - Len(uevent_writes) < MaxHotplug
    /\ \E m \in HotplugMsgs :
          socket' = Append(socket,
                           [id |-> arrived + 1,
                            n |-> IF m.oversize THEN UEVENT_MSG_LEN
                                  ELSE MsgLen(m.recs),
                            recs |-> m.recs, cause |-> 0])
    /\ arrived' = arrived + 1
    /\ UNCHANGED <<module_vars, perm_vars, dev_vars, file_vars, hd, recv_log,
                   handled_log, cb_vars, fw, hist>>

\* COLDBOOT_DONE is removed
RemoveSentinel ==
    /\ coldboot_done
    /\ coldboot_done' = FALSE
    /\ UNCHANGED <<module_vars, perm_vars, dev_vars, booting, alias_file,
                   blacklist_file, fw_dirs, sock_vars, cb_vars, fw, hist>>

DeviceInitEnd == DeviceInitFinish({})

NextColdboot ==
    \/ DeviceInitCall
    \/ ColdbootRoot
    \/ WalkPoke
    \/ WalkResume
    \/ WalkReaddir
    \/ DeviceInitEnd
    \/ MainDrain
    \/ HdRecv
    \/ HdDispatch
    \/ HdFirmwareDone
    \/ FwSearchStep
    \/ FwCopyStep
    \/ KernelHotplug
    \/ RemoveSentinel

SpecColdboot == InitColdboot /\ [][NextColdboot]_vars

(***************************************************************************)
(* parse_event on the messages the kernel builds from a uevent: the header *)
(* action@devpath, then a KEY=VALUE record per field that is there, and    *)
(* records of tags the parser does not know.  The message keeps, in src,   *)
(* the uevent it was built from.                                           *)
(***************************************************************************)
ParseUevents ==
    { [action |-> a, path |-> "/devices/platform/soc.0/" \o l,
       subsystem |-> sb, firmware |-> f, major |-> mj, minor |-> mn,
       partition_name |-> pn, partition_num |-> pt, device_name |-> dn,
       modalias |-> ma] :
        a \in {"add", "change"}, l \in {"mmcblk0p3", "PARTN=1"},
        sb \in {"block"}, f \in {"", "wlan.bin"},
        mj \in {-1, 0, 179}, mn \in {-1, 12}, pn \in {NULL, "", "system"},
        pt \in {-1, 0, 3}, dn \in {NULL, "mmcblk0p3"},
        ma \in {NULL, "acpi:PNP0A03"} }

UnknownRecords == {<<>>, <<"SEQNUM=1179">>, <<"ASYNC=1", "MAJORITY=7">>}

\* the message of uevent u, the records of unknown tags put after the header
serialize(u, unknown) ==
    <<u.action \o "@" \o u.path>>
    \o unknown
    \o <<"ACTION=" \o u.action, "DEVPATH=" \o u.path,
         "SUBSYSTEM=" \o u.subsystem>>
    \o (IF u.firmware = "" THEN <<>> ELSE <<"FIRMWARE=" \o u.firmware>>)
    \o (IF u.major < 0 THEN <<>> ELSE <<"MAJOR=" \o FmtD(u.major)>>)
    \o (IF u.minor < 0 THEN <<>> ELSE <<"MINOR=" \o FmtD(u.minor)>>)
    \o (IF u.device_name = NULL THEN <<>>
        ELSE <<"DEVNAME=" \o u.device_name>>)
    \o (IF u.partition_num < 0 THEN <<>>
        ELSE <<"PARTN=" \o FmtD(u.partition_num)>>)
    \o (IF u.partition_name = NULL THEN <<>>
        ELSE <<"PARTNAME=" \o u.partition_name>>)
    \o (IF u.modalias = NULL THEN <<>> ELSE <<"MODALIAS=" \o u.modalias>>)

InitParse ==
    /\ InitModuleLists
    /\ InitDev
    /\ socket = <<>>
    /\ arrived = 1
    /\ \E u \in ParseUevents, unknown \in UnknownRecords :
          LET recs == serialize(u, unknown)
          IN  hd = [pc |-> "got", child |-> FALSE, caller |-> "main",
                    msg |-> [id |-> 1, n |-> MsgLen(recs), recs |-> recs,
                             cause |-> 0, src |-> u],
                    n |-> MsgLen(recs)]
    /\ recv_log = <<1>>
    /\ handled_log = <<>>
    /\ dev_perms = <<>>
    /\ sys_perms = <<>>
    /\ booting = FALSE
    /\ alias_file = [present |-> FALSE, lines |-> <<>>]
    /\ blacklist_file = [present |-> FALSE, lines |-> <<>>]
    /\ coldboot_done = TRUE
    /\ di = [pc |-> "none", child |-> FALSE, roots |-> <<>>, fd |-> TRUE,
             calls |-> 1]
    /\ walk = <<>>
    /\ uevent_writes = <<>>
    /\ fw_dirs = {}
    /\ fw = FwIdle
    /\ hist = NoHist

\* parse_event(msg, &uevent) in the loop body; the uevent is kept in hist.ev
ParseMessage ==
    /\ hd.pc = "got"
    /\ hist' = [hist EXCEPT !.ev = parse_event(hd.msg.recs)]
    /\ hd' = [hd EXCEPT !.pc = "parsed"]
    /\ UNCHANGED <<module_vars, perm_vars, dev_vars, file_vars, socket,
                   arrived, recv_log, handled_log, cb_vars, fw>>

NextParse == ParseMessage

SpecParse == InitParse /\ [][NextParse]_vars

(***************************************************************************)
(* The dispatcher on its own: events of the four actions for subsystems    *)
(* that are, begin with, or are neither of block and platform, each with a *)
(* MODALIAS, handled by the parent after boot with modules.alias readable  *)
(* and a sysfs rule in place.                                              *)
(***************************************************************************)
DispatchEv(action, path, subsystem, major, minor) ==
    [Uev(action, path, subsystem)
        EXCEPT !.major = major, !.minor = minor, !.modalias = "acpi:PNP0A03"]

DispatchEvents ==
    { DispatchEv("add",    SocPart, "block", 179, 3),
      DispatchEv("remove", SocPart, "block", 179, 3),
      DispatchEv("add",    PciPart, "block_ext", 8, 1),
      DispatchEv("add",    "/devices/platform/soc.0", "platform", 10, 5),
      DispatchEv("remove", "/devices/platform/soc.0", "platform", 10, 5),
      DispatchEv("change", "/devices/platform/soc.0", "platform", 10, 5),
      DispatchEv("add",    "/devices/platform/soc.0/mmc.1", "platform_bus",
                 10, 6),
      DispatchEv("add",    "/devices/virtual/tty/ttyS0", "tty", 4, 64),
      DispatchEv("remove", "/devices/virtual/tty/ttyS0", "tty", 4, 64),
      DispatchEv("online", "/devices/platform/soc.0/cpu0", "cpu", -1, -1) }

InitDispatch ==
    /\ InitModuleLists
    /\ InitDev
    /\ InitSock
    /\ dev_perms = BootDevPerms
    /\ sys_perms = BootSysPerms
    /\ booting = FALSE
    /\ alias_file = [present |-> TRUE, lines |-> AliasLines]
    /\ blacklist_file = [present |-> FALSE, lines |-> <<>>]
    /\ coldboot_done = TRUE
    /\ di = [pc |-> "none", child |-> FALSE, roots |-> <<>>, fd |-> TRUE,
             calls |-> 1]
    /\ walk = <<>>
    /\ uevent_writes = <<>>
    /\ fw_dirs = {}
    /\ fw = FwIdle
    /\ hist = NoHist

\* the parent's handle_device_fd hands an event to handle_device_event
DispatchEvent ==
    \E u \in DispatchEvents :
        /\ handle_device_event(u, EnvOK({}))
        /\ UNCHANGED <<perm_vars, file_vars, sock_vars, cb_vars, fw>>

NextDispatch == DispatchEvent

SpecDispatch == InitDispatch /\ [][NextDispatch]_vars

(***************************************************************************)
(* The sysfs rules on their own: rules are added as the rule files are     *)
(* read, and events of devices without a node are handled in the parent.   *)
(***************************************************************************)
RECURSIVE Repeat(_, _)
Repeat(s, n) == IF n = 0 THEN "" ELSE s \o Repeat(s, n - 1)

\* an attribute path of 486 characters
LongAttr == Repeat("power/", 81)

SysRuleChoices ==
    { Rule("/sys/devices/platform/soc.0", "enable", 420, 5, 5, FALSE, FALSE),
      Rule("/sys/devices/platform/soc.0", "power/control", 432, 0, 1000,
           TRUE, FALSE),
      Rule("/sys/devices/platform/*/mmc.1", "enable", 438, 6, 6, FALSE, TRUE),
      Rule("/sys/devices/platform/soc.0", LongAttr, 384, 7, 7, TRUE, FALSE) }

SysEvents ==
    { Uev(a, d, "mmc") :
        a \in {"add", "change", "online", "remove"},
        d \in {"/devices/platform/soc.0", "/devices/platform/soc.0/mmc.1"} }

InitSysPerms ==
    /\ InitModuleLists
    /\ InitDev
    /\ InitSock
    /\ dev_perms = <<>>
    /\ sys_perms = <<>>
    /\ booting = TRUE
    /\ alias_file = [present |-> FALSE, lines |-> <<>>]
    /\ blacklist_file = [present |-> FALSE, lines |-> <<>>]
    /\ coldboot_done = FALSE
    /\ di = [pc |-> "coldboot", child |-> FALSE, roots |-> <<>>,
             fd |-> TRUE, calls |-> 1]
    /\ walk = <<>>
    /\ uevent_writes = <<>>
    /\ fw_dirs = {}
    /\ fw = FwIdle
    /\ hist = NoHist

AddSysPerm ==
    \E r \in SysRuleChoices :
        /\ Len(sys_perms) < MaxRules
        /\ add_dev_perms(r)
        /\ UNCHANGED <<module_vars, dev_vars, file_vars, sock_vars, cb_vars,
                       fw, hist>>

SysEvent ==
    \E u \in SysEvents :
        /\ handle_device_event(u, EnvOK({}))
        /\ UNCHANGED <<perm_vars, file_vars, sock_vars, cb_vars, fw>>

NextSysPerms == AddSysPerm \/ SysEvent

SpecSysPerms == InitSysPerms /\ [][NextSysPerms]_vars

(***************************************************************************)
(* Block devices below PCI devices: events whose devpaths have a PCI       *)
(* prefix that ends at the second '/', have too few '/', are not below     *)
(* /devices/pci, or have a prefix of 255 or of 256 characters.             *)
(***************************************************************************)
PciPaths ==
    { PciPart,
      "/devices/pci0000:00/0000:00:1f.2/sdb",
      "/devices/pci0000:00/sdc",
      "/devices/platform/pci0/0/sde",
      "/devices/pci" \o Repeat("0000000000", 25) \o "/ab/sdf",
      "/devices/pci" \o Repeat("0000000000", 25) \o "/a/sdg" }

PciEvents ==
    { BlockEv("add", p, 8, 1, 1, NULL) : p \in PciPaths }
    \cup { BlockEv("remove", p, 8, 1, 1, NULL) :
              p \in {PciPart, "/devices/pci0000:00/sdc",
                     "/devices/platform/pci0/0/sde"} }

PciEvent ==
    \E u \in PciEvents :
        /\ handle_device_event(u, EnvOK({}))
        /\ UNCHANGED <<perm_vars, file_vars, sock_vars, cb_vars, fw>>

NextPci == PciEvent

SpecPci == InitPlatform /\ [][NextPci]_vars

(***************************************************************************)
(* Device nodes added and removed while platform devices come and go: a    *)
(* partition and a USB serial port below the platform devices, with the    *)
(* add of a node remembered over the platform events that follow it.       *)
(***************************************************************************)
UsbTty == "/devices/platform/soc.0/usb1/1-1/1-1.2/ttyUSB0"

AddRemoveEvents ==
    { BlockEv("add",    SocPart, 179, 3, 3, "system"),
      BlockEv("remove", SocPart, 179, 3, 3, "system"),
      [Uev("add",    UsbTty, "tty") EXCEPT !.major = 188, !.minor = 0],
      [Uev("remove", UsbTty, "tty") EXCEPT !.major = 188, !.minor = 0] }

InitAddRemove ==
    /\ InitModuleLists
    /\ InitDev
    /\ InitSock
    /\ dev_perms = BootDevPerms
    /\ sys_perms = <<>>
    /\ booting = TRUE
    /\ alias_file = [present |-> FALSE, lines |-> <<>>]
    /\ blacklist_file = [present |-> FALSE, lines |-> <<>>]
    /\ coldboot_done = FALSE
    /\ di = [pc |-> "coldboot", child |-> FALSE, roots |-> <<>>,
             fd |-> TRUE, calls |-> 1]
    /\ walk = <<>>
    /\ uevent_writes = <<>>
    /\ fw_dirs = {}
    /\ fw = FwIdle
    /\ hist = [NoHist EXCEPT !.added.on = TRUE]

AddRemoveEvent ==
    \E u \in AddRemoveEvents \cup PlatformEvents :
        /\ handle_device_event(u, EnvOK({}))
        /\ UNCHANGED <<perm_vars, file_vars, sock_vars, cb_vars, fw>>

NextAddRemove == AddRemoveEvent

SpecAddRemove == InitAddRemove /\ [][NextAddRemove]_vars

(***************************************************************************)
(* Claims on the module alias engine.                                      *)
(***************************************************************************)
\* the modules with a non-deferred line in modules.blacklist
NonDeferredBlacklisted ==
    IF blacklist_file.present
    THEN {blacklist_file.lines[i].name :
            i \in {j \in 1..Len(blacklist_file.lines) :
                     ~blacklist_file.lines[j].deferred}}
    ELSE {}

\* C1: a module whose blacklist entry is non-deferred is never passed to
\* insmod as the result of an alias match, by uevent handling, by the
\* deferred drain or by the modprobe helper, booting or not
C1_BlacklistedNeverInsmodded ==
    \A c \in insmodded : c.via = "alias" => c.name \notin NonDeferredBlacklisted

\* C1 witness: with pcihost blacklisted and the alias table loaded, a
\* MODALIAS matching both pcihost and button was handled: button was loaded
C1_Witness ==
    /\ "pcihost" \in NonDeferredBlacklisted
    /\ modules_aliases_map # <<>>
    /\ \E c \in insmodded : c.name = "button" /\ c.via = "alias"

\* the modules a boot-complete retry of MODALIAS id passes to insmod
RetryCalls(id, aliases, bl) ==
    load_module_by_device_modalias(id, FALSE, aliases, bl, {}).calls

\* C10: in the step of handle_module_loading that loads the alias table,
\* every MODALIAS queued before is matched and its modules are passed to
\* insmod
C10_DrainWhenAliasesLoad ==
    [][(modules_aliases_map = <<>> /\ modules_aliases_map' # <<>>)
       => \A i \in 1..Len(deferred_module_loading_list) :
            \A m \in RetryCalls(deferred_module_loading_list[i],
                                modules_aliases_map', modules_blacklist') :
               \E c \in insmodded' : c.name = m /\ c.via = "alias"]_vars

(***************************************************************************)
(* Claims on the platform registry and the block links.                    *)
(***************************************************************************)
LeafOf(path) == StrFrom(path, StrRChr(path, "/") + 1)

\* the name add_platform_device derives for a devpath
PlatformNameOf(d) == add_platform_device(d, <<>>)[1].name

\* C2: after a platform remove for devpath D (and no add of D since), no
\* block event below D/ gets the links typed platform of D's device: its
\* leaf link is not /dev/block/platform/<D's name>/<last component>
C2_NoPlatformLinksAfterRemove ==
    \A d \in hist.removed :
        StartsWith(hist.ev.path, d \o "/")
        => \A i \in 1..Len(hist.links) :
              hist.links[i] # "/dev/block/platform/" \o PlatformNameOf(d)
                                  \o "/" \o LeafOf(hist.ev.path)

\* C3: no two entries of the platform registry have the same devpath
C3_NoDuplicateDevpath ==
    \A i, j \in 1..Len(platform_names) :
        platform_names[i].path = platform_names[j].path => i = j

\* the by-name link C7 speaks of, for the last block event and entry p
ByNameLink(p) ==
    "/dev/block/platform/" \o p.name \o "/by-name/"
        \o sanitize(hist.ev.partition_name)

LinkPointsAt(link, target) ==
    /\ link \in DOMAIN dev_fs
    /\ dev_fs[link].kind = "link"
    /\ dev_fs[link].target = target

\* the last block event is an add that carries a partition name
LastIsNamedAdd ==
    /\ hist.ev.action = "add"
    /\ StartsWith(hist.ev.subsystem, "block")
    /\ hist.ev.partition_name # NULL

\* the registry entries whose path is a directory prefix of path
PlatformParents(path) ==
    {i \in 1..Len(platform_names) :
        StartsWith(path, platform_names[i].path \o "/")}

\* C7 as claimed: after an add block event with a partition name, below any
\* registered platform device P, the by-name link of P exists and points
\* at /dev/block/<last component>
C7_ByNameLinkForEveryAdd ==
    LastIsNamedAdd
    => \A i \in PlatformParents(hist.ev.path) :
          LinkPointsAt(ByNameLink(platform_names[i]),
                       "/dev/block/" \o LeafOf(hist.ev.path))

\* C7 as amended: the same for an event that carries MAJOR and MINOR and
\* whose last component has at most 64 characters, P being the newest
\* registered entry that is a directory prefix of the devpath, with
\* /dev/block/platform/<P.name> shorter than 256 characters
C7_ByNameLinkForDeviceAdd ==
    (/\ LastIsNamedAdd
     /\ hist.ev.major >= 0
     /\ hist.ev.minor >= 0
     /\ Len(LeafOf(hist.ev.path)) <= NameLen
     /\ PlatformParents(hist.ev.path) # {})
    => LET i == CHOOSE k \in PlatformParents(hist.ev.path) :
                  \A l \in PlatformParents(hist.ev.path) : l <= k
       IN  Len("/dev/block/platform/" \o platform_names[i].name) < LinkPathSize
           => LinkPointsAt(ByNameLink(platform_names[i]),
                           "/dev/block/" \o LeafOf(hist.ev.path))

\* C7 witness: the add of mmcblk0p3 named "user data/bad" below soc.0 was
\* handled and its sanitized by-name link is there
C7_Witness ==
    /\ LastIsNamedAdd
    /\ hist.ev.partition_name = "user data/bad"
    /\ PlatformParents(hist.ev.path) # {}
    /\ \E l \in DOMAIN dev_fs :
          /\ StartsWith(l, "/dev/block/platform/soc.0")
          /\ LeafOf(l) = "user_data_bad"
          /\ dev_fs[l].target = "/dev/block/mmcblk0p3"

(***************************************************************************)
(* Claims on the permission resolver.                                      *)
(***************************************************************************)
\* the rules of list perms that match the path or one of the links
MatchingRules(path, links, perms) ==
    {i \in 1..Len(perms) :
        \/ perm_path_matches(path, perms[i])
        \/ \E k \in 1..Len(links) : perm_path_matches(links[k], perms[i])}

\* what C4 says get_device_perm returns
NewestMatch(path, links, perms) ==
    LET ms == MatchingRules(path, links, perms)
    IN  IF ms = {} THEN [uid |-> 0, gid |-> 0, perm |-> 384]
        ELSE LET i == CHOOSE k \in ms : \A l \in ms : l <= k
             IN  [uid |-> perms[i].uid, gid |-> perms[i].gid,
                  perm |-> perms[i].perm]

\* C4: get_device_perm returns the (uid, gid, mode) of the most recently
\* inserted rule matching the path or a link, and 0, 0, 0600 without one
C4_NewestMatchingRuleWins ==
    hist.pm.called
    => hist.pm.res = NewestMatch(hist.pm.path, hist.pm.links,
                                 SubSeq(dev_perms, 1, hist.pm.nrules))

\* C4 witness: a call where two rules with different results match, the
\* newer of them through a link only
C4_Witness ==
    /\ hist.pm.called
    /\ LET ms == MatchingRules(hist.pm.path, hist.pm.links,
                               SubSeq(dev_perms, 1, hist.pm.nrules))
       IN  \E i, j \in ms :
              /\ i < j
              /\ dev_perms[i].uid # dev_perms[j].uid
              /\ ~perm_path_matches(hist.pm.path, dev_perms[j])
              /\ \A l \in ms : l <= j
              /\ hist.pm.res.uid = dev_perms[j].uid

(***************************************************************************)
(* Claims on the firmware handler.                                         *)
(***************************************************************************)
\* C5: when the handler of a firmware add event whose loading and data files
\* were opened is over, the last write to loading is "0" after a transfer
\* that succeeded and "-1" after a failure (not found, fstat, read, write)
C5_LastLoadingWrite ==
    (fw.pc = "done" /\ fw.opened)
    => /\ Len(fw.loading) > 0
       /\ fw.loading[Len(fw.loading)] = (IF fw.fail = "" THEN "0" ELSE "-1")

(***************************************************************************)
(* Claims on device_init, the netlink receiver and the coldboot walker.    *)
(***************************************************************************)
\* a device_init call begins a traversal in this step
TraversalBegins == di.pc = "none" /\ di'.pc = "coldboot"

\* a device_init call returns early in this step
InitReturnsEarly == di.pc = "none" /\ di'.pc = "none" /\ di'.calls # di.calls

\* C6: no traversal runs while COLDBOOT_DONE exists or in the child: a
\* device_init call begins one only with the sentinel absent and child false,
\* a call that returns early writes no uevent file and handles no event,
\* uevent files are written only inside a traversal, and the call that ends
\* a traversal leaves the sentinel created
C6_ColdbootOncePerSentinel ==
    /\ [](di.pc = "coldboot" => ~coldboot_done /\ ~di.child)
    /\ [][/\ TraversalBegins => ~coldboot_done /\ ~di'.child
          /\ InitReturnsEarly =>
                /\ (coldboot_done \/ di'.child \/ ~di'.fd)
                /\ uevent_writes' = uevent_writes
                /\ handled_log' = handled_log
                /\ recv_log' = recv_log
          /\ uevent_writes' # uevent_writes => di.pc = "coldboot"
          /\ (di.pc = "coldboot" /\ di'.pc = "none") => coldboot_done']_vars

\* C6 witness: a second device_init call in the parent found the sentinel of
\* the first call's traversal and returned with nothing more written
C6_Witness ==
    /\ di.calls = 2
    /\ di.pc = "none"
    /\ di.fd
    /\ ~di.child
    /\ coldboot_done
    /\ Len(uevent_writes) = 2

\* C8: messages are handled in the order they arrived, one at a time: what
\* was handled is a prefix of what was received, a message is received only
\* when the one before is done with (the firmware handshake included), and
\* handle_device_fd returns only when the socket holds nothing
C8_ArrivalOrder ==
    /\ [](/\ Len(handled_log) <= Len(recv_log)
          /\ Len(recv_log) <= Len(handled_log) + 1
          /\ \A i \in 1..Len(handled_log) : handled_log[i].id = recv_log[i]
          /\ \A i, j \in 1..Len(recv_log) : i < j => recv_log[i] < recv_log[j])
    /\ [][/\ recv_log' # recv_log =>
                /\ Len(handled_log) = Len(recv_log)
                /\ fw.pc \in {"idle", "done"}
          /\ (hd.pc # "idle" /\ hd'.pc = "idle") => socket = <<>>]_vars

\* C8 witness: in the child a second message is in its firmware handshake,
\* data already written, after a first one was handled and dropped
C8_Witness ==
    /\ hd.child
    /\ hd.pc = "fw"
    /\ fw.data # <<>>
    /\ Len(handled_log) >= 1
    /\ Len(recv_log) = Len(handled_log) + 1

\* C9: whenever the walker is not inside the drain that follows a uevent
\* write, the message the kernel sent for every write so far has been
\* received and handled by the device handlers
C9_DrainBeforeAdvance ==
    (walk = <<>> \/ WalkTop.pc # "drain")
    => \A k \in 1..Len(uevent_writes) :
          \E i \in 1..Len(handled_log) :
             /\ handled_log[i].id = uevent_writes[k].id
             /\ handled_log[i].by = "device"

\* C9 witness: the walker reads soc.0's first entry after its write, the
\* platform add it caused is registered, a message of the kernel's own
\* having been handled in the same drain
C9_Witness ==
    /\ walk # <<>>
    /\ WalkTop.pc = "readdir"
    /\ WalkTop.dir = "/sys/devices/platform/soc.0"
    /\ WalkTop.idx = 0
    /\ Len(handled_log) >= 2
    /\ handled_log[Len(handled_log)].id = uevent_writes[Len(uevent_writes)].id
    /\ handled_log[Len(handled_log) - 1].by = "device"
    /\ platform_names # <<>>

(***************************************************************************)
(* Claims on the deferred queue.                                           *)
(***************************************************************************)
\* the first blacklist line of module name says deferred
DeferredBlacklisted(name, bl) ==
    \E i \in 1..Len(bl) :
       /\ bl[i].name = name
       /\ bl[i].deferred
       /\ \A j \in 1..(i - 1) : bl[j].name # name

\* some alias matching id names a deferred-blacklisted module
SomeMatchDeferred(id, aliases, bl) ==
    \E i \in 1..Len(aliases) :
       /\ FnMatch(aliases[i].pattern, id, FALSE)
       /\ DeferredBlacklisted(aliases[i].name, bl)

\* C11: an add event with a MODALIAS handled while booting appends the
\* MODALIAS to the deferred queue when the alias table is still empty or
\* some alias matching it names a deferred-blacklisted module, wherever that
\* alias stands among the matching ones; otherwise the queue is unchanged
C11_EnqueueOnAnyDeferredMatch ==
    [][\A u \in ModuleEvents, failing \in FailingSets :
          (/\ u.action = "add"
           /\ u.modalias # NULL
           /\ booting
           /\ handle_device_event(u, EnvOK(failing)))
          => IF \/ modules_aliases_map' = <<>>
                \/ SomeMatchDeferred(u.modalias, modules_aliases_map',
                                     modules_blacklist')
             THEN deferred_module_loading_list' =
                     Append(deferred_module_loading_list, u.modalias)
             ELSE deferred_module_loading_list' =
                     deferred_module_loading_list]_vars

\* this step is a uevent handled by handle_device_event, or the deferred
\* drain at the end of device_init
UeventOrDrainStep ==
    \/ \E u \in ModuleEvents, failing \in FailingSets :
          handle_device_event(u, EnvOK(failing))
    \/ \E failing \in FailingSets : DeviceInitFinish(failing)

\* C12: while /dev/.booting exists, neither the handling of a uevent nor the
\* deferred drain passes a deferred-blacklisted module to insmod
C12_DeferredNotLoadedWhileBooting ==
    [][(booting /\ UeventOrDrainStep)
       => \A c \in insmodded' \ insmodded :
             ~DeferredBlacklisted(c.name, modules_blacklist')]_vars

\* C13: when the alias table becomes available and booting ends, a
\* MODALIAS on the deferred queue is eventually taken off it, whenever it was
\* put there
C13_QueueEventuallyDrained ==
    (<>[](modules_aliases_map # <<>>) /\ <>[](~booting))
    => [](deferred_module_loading_list # <<>>
          => <>(deferred_module_loading_list = <<>>))

(***************************************************************************)
(* Claims on the handling of one event.                                    *)
(***************************************************************************)
\* C14: an add event whose SELinux label lookup fails creates nothing in
\* /dev, neither the device node nor any of its symlinks
C14_NothingCreatedOnLabelFailure ==
    [][\A u \in BlockEvents :
          (/\ u.action = "add"
           /\ handle_device_event(u, [EnvOK({}) EXCEPT !.sel_ok = FALSE]))
          => DOMAIN dev_fs' = DOMAIN dev_fs]_vars

\* the loop body handles, in this step, a message of subsystem sub in the
\* context child
Dispatches(child, sub) ==
    /\ hd.pc = "got"
    /\ hd'.pc # "got"
    /\ hd.child = child
    /\ hd.n < UEVENT_MSG_LEN
    /\ parse_event(hd.msg.recs).subsystem = sub

\* C15: in the parent an event of subsystem firmware changes nothing: no
\* registry, rule list or deferred queue, no node or link, no sysfs
\* attribute, no module passed to insmod, no write to loading or data
C15_ParentIgnoresFirmware ==
    [][Dispatches(FALSE, "firmware")
       => UNCHANGED <<platform_names, dev_perms, sys_perms,
                      deferred_module_loading_list, dev_fs, sysfs_attrs,
                      insmodded, fw>>]_vars

\* C16: in the firmware child no step of handle_device_fd changes the
\* platform registry, the module lists and queue, /dev or the sysfs
\* attributes, and the firmware handshake starts only for a message of
\* subsystem firmware and action add
C16_ChildRoutesToFirmwareOnly ==
    [][(hd.child /\ hd.pc # "idle")
       => /\ UNCHANGED <<platform_names, module_vars, dev_fs, sysfs_attrs,
                         perm_vars>>
          /\ (hd.pc = "got" /\ fw' # fw)
             => /\ parse_event(hd.msg.recs).subsystem = "firmware"
                /\ parse_event(hd.msg.recs).action = "add"
          /\ (hd.pc # "got" /\ fw' # fw) => hd.pc = "fw"]_vars

\* C16 witness: the child has handed one message to the firmware handler
\* and is in the handshake of a firmware add
C16_Witness ==
    /\ hd.child
    /\ hd.pc = "fw"
    /\ fw.pc = "copy"
    /\ Len(handled_log) = 1
    /\ handled_log[1].by = "firmware"
    /\ platform_names = <<>>
    /\ deferred_module_loading_list = <<>>

(***************************************************************************)
(* Claims on the parser.                                                   *)
(***************************************************************************)
\* C17: parsing the message of a uevent gives the uevent back on its ten
\* fields, absent strings as empty or NULL, absent numbers as -1, whatever
\* records of unknown tags and header the message holds
C17_ParseRoundTrip ==
    hd.pc = "parsed" => hist.ev = hd.msg.src

\* C17 witness: a message with unknown tags, a partition name and no
\* MODALIAS was parsed
C17_Witness ==
    /\ hd.pc = "parsed"
    /\ \E i \in 1..Len(hd.msg.recs) : hd.msg.recs[i] = "MAJORITY=7"
    /\ hist.ev.partition_name = "system"
    /\ hist.ev.partition_num = 3
    /\ hist.ev.major = 179
    /\ hist.ev.modalias = NULL
    /\ hist.ev.path = "/devices/platform/soc.0/PARTN=1"

\* C18: a received message whose length equals the 2048-byte cap is
\* discarded without being parsed or dispatched: the step of handle_device_fd
\* that is done with it leaves the alias map, the blacklist, the deferred
\* queue, the inserted modules, the permission tables, the platform registry,
\* /dev, the sysfs attributes and the firmware handler unchanged, records no
\* parsed event, and goes back to receive the next message.
C18_OverflowDiscarded ==
    [][(hd.pc = "got" /\ hd.n = UEVENT_MSG_LEN /\ hd'.pc # "got")
       => /\ UNCHANGED <<module_vars, perm_vars, dev_vars, fw, hist>>
          /\ handled_log' = Append(handled_log,
                                   [id |-> hd.msg.id, by |-> "discard"])
          /\ hd'.pc = "recv"
          /\ hd'.child = hd.child]_vars

\* C18 witness: a message of the cap's length was discarded and the drain
\* went on to receive and handle the message after it
C18_Witness ==
    \E i \in 1..Len(handled_log) :
        /\ handled_log[i].by = "discard"
        /\ i < Len(handled_log)
        /\ handled_log[i + 1].by \in {"device", "firmware"}
        /\ \E j \in 1..Len(recv_log) :
              /\ j < Len(recv_log)
              /\ recv_log[j] = handled_log[i].id
              /\ recv_log[j + 1] = handled_log[i + 1].id

(***************************************************************************)
(* Claims on the firmware retry loop.                                      *)
(***************************************************************************)
FwRunning == fw.pc \in {"search", "sleep", "copy"}

\* C19: if the firmware file eventually is in a search directory, or
\* booting eventually is false, a running firmware handler finishes; the
\* search is repeated (usleep, then try_loading_again) only when the last
\* read of is_booting was true, the read is renewed after each sleep, and a
\* search that finds no file with booting last read false writes "-1" to
\* loading and ends the handler at once.
C19_FirmwareRetryTerminates ==
    /\ (<>(FirmwareFound # {}) \/ <>(~booting))
       => [](FwRunning => <>(fw.pc = "done"))
    /\ [][/\ (fw.pc = "search" /\ fw'.pc = "sleep") => fw.booting
          /\ (fw.pc = "sleep" /\ fw' # fw)
             => (fw'.pc = "search" /\ fw'.booting = booting)
          /\ (fw.pc = "search" /\ FirmwareFound = {} /\ ~fw.booting
              /\ fw' # fw)
             => /\ fw'.pc = "done"
                /\ fw'.loading = Append(fw.loading, "-1")
                /\ fw'.data = fw.data]_vars

\* C19 witness: the handler slept and searched again while booting, then
\* found no file with booting read false, wrote "-1" and finished
C19_Witness ==
    /\ fw.pc = "done"
    /\ fw.slept
    /\ ~fw.booting
    /\ fw.fail = "notfound"
    /\ fw.loading = <<"-1">>
    /\ fw_dirs = {}

(***************************************************************************)
(* Claims on the dispatcher.                                               *)
(***************************************************************************)
\* the first five, or eight, characters of the subsystem decide the handler
RouteOf(u) ==
    IF Len(u.subsystem) >= 5 /\ SubSeq(u.subsystem, 1, 5) = "block"
    THEN "block"
    ELSE IF Len(u.subsystem) >= 8 /\ SubSeq(u.subsystem, 1, 8) = "platform"
    THEN "platform"
    ELSE "generic"

\* C20: an event handled in the parent loads modules only when its action
\* is add, has the sysfs fix-up applied only when its action is add, change
\* or online, and then goes to one handler by the prefix of its subsystem:
\* block (only /dev changes, as the block handler leaves it), else platform
\* (only the registry changes, as the platform handler leaves it; no node
\* and no link is created or removed), else generic (only /dev changes, as
\* the generic handler leaves it).
C20_RoutedToOneHandler ==
    [][\A u \in DispatchEvents :
          handle_device_event(u, EnvOK({}))
          => /\ u.action # "add" => UNCHANGED module_vars
             /\ u.action = "add"
                => \E c \in insmodded' : c.name = "pcihost" /\ c.via = "alias"
             /\ sysfs_attrs' = IF u.action \in {"add", "change", "online"}
                               THEN fixup_sys_perms(u.path) ELSE sysfs_attrs
             /\ UNCHANGED perm_vars
             /\ RouteOf(u) = "block"
                => /\ dev_fs' = handle_block_device_event(u, EnvOK({}))
                   /\ UNCHANGED platform_names
             /\ RouteOf(u) = "platform"
                => /\ platform_names' = handle_platform_device_event(u)
                   /\ UNCHANGED dev_fs
             /\ RouteOf(u) = "generic"
                => /\ dev_fs' = handle_generic_device_event(u, EnvOK({}))
                   /\ UNCHANGED platform_names]_vars

\* C20 witness: only platform adds (with MAJOR, MINOR and MODALIAS) have
\* been handled, one of them for a subsystem that begins with platform: two
\* registry entries, the module loaded, the sysfs attribute fixed, and /dev
\* still empty
C20_Witness ==
    /\ Len(platform_names) = 2
    /\ DOMAIN dev_fs = {}
    /\ \E c \in insmodded : c.name = "pcihost"
    /\ "/sys/devices/platform/soc.0/mmc.1/enable" \in DOMAIN sysfs_attrs
    /\ "/sys/devices/platform/soc.0/enable" \in DOMAIN sysfs_attrs

(***************************************************************************)
(* Claims on the sysfs fix-up.                                             *)
(***************************************************************************)
\* the positions of the sysfs rules that match the devpath
SysMatching(upath) ==
    {i \in 1..Len(sys_perms) : SysPermMatches(upath, sys_perms[i])}

SysAttrPath(upath, dp) == "/sys" \o upath \o "/" \o dp.attr

\* the attribute's path fits fixup_sys_perms's buffer
SysFits(upath, dp) == Len(upath) + Len(dp.attr) + 6 <= SysBufSize

\* C21: after an add, change or online event with devpath U is handled,
\* the attribute of every sysfs rule that matches U (and whose path fits
\* the 512-byte buffer) has been given the owner and the mode of the last
\* rule in the list that matches U and names that attribute: every
\* matching rule is applied, in insertion order, and none is left out
\* because of a rule before it.
C21_EveryMatchingSysRuleApplied ==
    [][\A u \in SysEvents :
          (/\ u.action \in {"add", "change", "online"}
           /\ handle_device_event(u, EnvOK({})))
          => \A i \in {k \in SysMatching(u.path) :
                          SysFits(u.path, sys_perms[k])} :
                LET f    == SysAttrPath(u.path, sys_perms[i])
                    same == {j \in SysMatching(u.path) :
                                sys_perms[j].attr = sys_perms[i].attr}
                    last == CHOOSE j \in same : \A k \in same : k <= j
                IN  /\ f \in DOMAIN sysfs_attrs'
                    /\ sysfs_attrs'[f] = [uid  |-> sys_perms[last].uid,
                                          gid  |-> sys_perms[last].gid,
                                          perm |-> sys_perms[last].perm]]_vars

(***************************************************************************)
(* Claims on the platform registry lookup.                                 *)
(***************************************************************************)
\* the positions of the registry entries whose path, followed by '/', begins
\* the devpath
DirPrefixEntries(devpath) ==
    {i \in 1..Len(platform_names) :
        /\ Len(platform_names[i].path) < Len(devpath)
        /\ SubSeq(devpath, 1, Len(platform_names[i].path) + 1)
              = platform_names[i].path \o "/"}

\* C22: whenever registry entries are strict directory prefixes of a block
\* device's devpath, find_platform_device returns one of them whose path is
\* the longest, whatever adds and removes built the registry.
C22_LongestPrefixFound ==
    \A u \in BlockEvents :
        LET cand == DirPrefixEntries(u.path)
            i    == find_platform_device(u.path, platform_names)
        IN  cand # {}
            => /\ i \in cand
               /\ \A j \in cand : Len(platform_names[j].path)
                                     <= Len(platform_names[i].path)

(***************************************************************************)
(* Claims on the links of a block device.                                  *)
(***************************************************************************)
\* block events the link derivation is asked about: those the handler is
\* given, one with neither PARTN nor PARTNAME, and one below neither a
\* platform device nor a PCI device
LinkEvents ==
    BlockEvents
    \cup { BlockEv("add", PciPart, 8, 1, -1, NULL),
           BlockEv("add", "/devices/virtual/block/loop0", 7, 0, 0, "loop") }

\* the base directories /dev/block/<type>/<device> the claim allows
LinkBases(u) ==
    IF DirPrefixEntries(u.path) # {}
    THEN {"/dev/block/platform/" \o platform_names[i].name :
             i \in DirPrefixEntries(u.path)}
    ELSE IF find_pci_device_prefix(u.path, PciBufSize) # NULL
    THEN {"/dev/block/pci/" \o find_pci_device_prefix(u.path, PciBufSize)}
    ELSE {}

\* C23: the links of a block event are below /dev/block/platform/<device>
\* when a registry entry matches the devpath, else below
\* /dev/block/pci/<prefix> when a PCI prefix can be extracted, else there is
\* none; the list holds, in this order, the by-name link if and only if
\* PARTNAME is present, the by-num link if and only if PARTN >= 0, and
\* always the leaf link: one to three links, so that the array of four
\* keeps a terminator.
C23_BlockLinksTypedAndOrdered ==
    \A u \in LinkEvents :
        LET links == get_block_device_symlinks(u, platform_names)
            n     == Len(links)
            named == u.partition_name # NULL
            numd  == u.partition_num >= 0
        IN  IF LinkBases(u) = {} THEN links = <<>>
            ELSE \E base \in LinkBases(u) :
                    /\ n = 1 + (IF named THEN 1 ELSE 0)
                             + (IF numd THEN 1 ELSE 0)
                    /\ n \in 1..3
                    /\ named => StartsWith(links[1], base \o "/by-name/")
                    /\ numd => links[n - 1]
                                  = base \o "/by-num/p" \o FmtD(u.partition_num)
                    /\ links[n] = base \o "/" \o LeafOf(u.path)

\* C23 witness: a block add below a platform device with PARTNAME and PARTN
\* was handled and its three links are in /dev, and the same devpath's
\* links would be typed pci were it below a PCI device instead
C23_Witness ==
    /\ hist.ev.action = "add"
    /\ hist.ev.path = SocPart
    /\ hist.links = <<"/dev/block/platform/soc.0/mmc.1/by-name/system",
                      "/dev/block/platform/soc.0/mmc.1/by-num/p3",
                      "/dev/block/platform/soc.0/mmc.1/mmcblk0p3">>
    /\ \A i \in 1..3 : hist.links[i] \in DOMAIN dev_fs
    /\ get_block_device_symlinks(BlockEv("add", PciPart, 8, 1, 1, NULL),
                                 platform_names)
          = <<"/dev/block/pci/pci0000:00/0000:00:1f.2/by-num/p1",
              "/dev/block/pci/pci0000:00/0000:00:1f.2/sda1">>

(***************************************************************************)
(* Claims on the end of coldboot.                                          *)
(***************************************************************************)
\* C24: device_init, after its traversal, drains the deferred module queue
\* before it creates COLDBOOT_DONE: in the step that creates the sentinel
\* the queue ends up empty, whether or not modules.alias could be read.
C24_QueueEmptyAtColdbootDone ==
    [][(~coldboot_done /\ coldboot_done')
       => deferred_module_loading_list' = <<>>]_vars

(***************************************************************************)
(* Claims on make_device.                                                  *)
(***************************************************************************)
\* the add events, of block and of other devices, that reach make_device
MakeDeviceEvents ==
    {u \in DispatchEvents :
        /\ u.action = "add"
        /\ ~StartsWith(u.subsystem, "platform")
        /\ DevpathOf(u) # NULL}

MdStepsOf(u, env) ==
    make_device_steps(dev_fs, DevpathOf(u), StartsWith(u.subsystem, "block"),
                      u.major, u.minor, LinksOf(u), dev_perms, env)

\* /dev after the event's handler
MdHandled(u, env) ==
    IF StartsWith(u.subsystem, "block") THEN handle_block_device_event(u, env)
    ELSE handle_generic_device_event(u, env)

\* C25: whichever way make_device goes (no label, mknod done, mknod EEXIST,
\* mknod failed otherwise), when it returns the effective gid is root and
\* the file-creation label is cleared; the effective gid is the target gid
\* at mknod and differs from root only from setegid(gid) to chown; and on
\* EEXIST the node that is there gets the label and stays what it was, and
\* the event's links are made all the same.
C25_MakeDeviceRestoresGidAndLabel ==
    \A u \in MakeDeviceEvents, env \in BlockEnvs :
        LET t   == MdStepsOf(u, env)
            n   == Len(t)
            d   == DevpathOf(u)
            pm  == get_device_perm(d, LinksOf(u), dev_perms)
        IN  /\ t[n].egid = AID_ROOT
            /\ t[n].fscreatecon = NULL
            /\ \A i \in 1..n :
                  /\ t[i].op = "mknod" => t[i].egid = pm.gid
                  /\ t[i].egid # AID_ROOT
                     => t[i].op \in {"setegid", "mknod", "lsetfilecon", "chown"}
            /\ (env.sel_ok /\ d \in DOMAIN dev_fs)
               => /\ d \in DOMAIN t[n].fs
                  /\ t[n].fs[d].label = env.secontext
                  /\ t[n].fs[d].kind = dev_fs[d].kind
                  /\ t[n].fs[d].major = dev_fs[d].major
                  /\ \A k \in 1..Len(LinksOf(u)) :
                        LinksOf(u)[k] \in DOMAIN MdHandled(u, env)

\* C25 witness: the node of mmcblk0p3 was made under gid 1000 with the
\* label, and the same add handled again finds it there (EEXIST) and sets
\* the label on it while the effective gid is 1000
C25_Witness ==
    /\ hist.ev.action = "add"
    /\ hist.ev.path = SocPart
    /\ "/dev/block/mmcblk0p3" \in DOMAIN dev_fs
    /\ dev_fs["/dev/block/mmcblk0p3"].gid = 1000
    /\ dev_fs["/dev/block/mmcblk0p3"].label = EnvOK({}).secontext
    /\ \E i \in 1..Len(MdStepsOf(hist.ev, EnvOK({}))) :
          /\ MdStepsOf(hist.ev, EnvOK({}))[i].op = "lsetfilecon"
          /\ MdStepsOf(hist.ev, EnvOK({}))[i].egid = 1000

(***************************************************************************)
(* Claims on the firmware transfer.                                        *)
(***************************************************************************)
\* C26: in a firmware transfer "1" is in loading before anything goes to
\* data; each chunk written to data begins where the one before it ended,
\* the first at offset 0 of the file; nothing goes to data once the final
\* "0" or "-1" is in loading; and a read that returns end-of-file while
\* bytes of the fstat size are still to copy ends the transfer with "0".
C26_FirmwareTransferOrder ==
    /\ [](\A i \in 1..Len(fw.data) :
             fw.data[i].off = IF i = 1 THEN 0
                              ELSE fw.data[i - 1].off + fw.data[i - 1].n)
    /\ [][/\ (fw'.data # fw.data /\ fw'.data # <<>>)
             => /\ fw.loading = <<"1">>
                /\ fw'.data = Append(fw.data, fw'.data[Len(fw'.data)])
                /\ fw'.loading \in {<<"1">>, <<"1", "0">>}
          /\ (fw.pc = "copy" /\ fw'.pc = "done")
             => /\ fw.loading = <<"1">>
                /\ fw'.loading \in {<<"1", "0">>, <<"1", "-1">>}
          /\ (fw.pc = "copy" /\ fw.pos >= fw.file_len /\ fw.len_to_copy > 0
              /\ fw'.pc = "done" /\ fw'.fail # "read")
             => /\ fw'.loading = <<"1", "0">>
                /\ fw'.ret = 0
                /\ fw'.data = fw.data]_vars

\* C26 witness: a file of 100 bytes whose fstat size was 5000: one chunk,
\* then end-of-file, and the transfer ended with "0"
C26_Witness ==
    /\ fw.pc = "done"
    /\ fw.st_size = PAGE_SIZE + 904
    /\ fw.file_len = 100
    /\ fw.data = <<[off |-> 0, n |-> 100]>>
    /\ fw.loading = <<"1", "0">>
    /\ fw.ret = 0

(***************************************************************************)
(* Claims on the PCI prefix.                                               *)
(***************************************************************************)
\* the positions (from 1) of the '/' after offset 9 of the path
SlashesAfterStart(p) == {i \in 11..Len(p) : CharAt(p, i) = "/"}

\* the substring from offset 9 to just before the k-th '/' after it; NULL
\* when the path does not begin with /devices/pci, has fewer than k such
\* '/', or the substring and its terminator do not fit sz bytes
PrefixToSlash(p, k, sz) ==
    IF ~(Len(p) >= 12 /\ SubSeq(p, 1, 12) = "/devices/pci") THEN NULL
    ELSE LET S == SlashesAfterStart(p)
         IN  IF Cardinality(S) < k THEN NULL
             ELSE LET e == CHOOSE x \in S :
                              Cardinality({y \in S : y < x}) = k - 1
                  IN  IF (e - 10) + 1 > sz THEN NULL
                      ELSE SubSeq(p, 10, e - 1)

\* C27 as claimed: for the devpath of the block event last handled,
\* find_pci_device_prefix gives the substring from offset 9 to just before
\* the third '/' after it, and fails when the path is not PCI-shaped, has
\* fewer '/', or the result does not fit
C27_PciPrefixToThirdSlash ==
    hist.ev.path # ""
    => find_pci_device_prefix(hist.ev.path, PciBufSize)
          = PrefixToSlash(hist.ev.path, 3, PciBufSize)

\* C27: for the devpath of the block event last handled,
\* find_pci_device_prefix gives the substring from offset 9 to just before
\* the second '/' after it, and fails when the path does not begin with
\* /devices/pci, has fewer than two '/' after offset 9, or the substring
\* with its terminator is longer than the buffer
C27_PciPrefixToSecondSlash ==
    hist.ev.path # ""
    => find_pci_device_prefix(hist.ev.path, PciBufSize)
          = PrefixToSlash(hist.ev.path, 2, PciBufSize)

\* C27 witness: the add of sda1 was handled, its prefix is the domain/bus
\* and the peripheral, and its links are below it
C27_Witness ==
    /\ hist.ev.action = "add"
    /\ hist.ev.path = PciPart
    /\ find_pci_device_prefix(hist.ev.path, PciBufSize)
          = "pci0000:00/0000:00:1f.2"
    /\ "/dev/block/pci/pci0000:00/0000:00:1f.2/sda1" \in DOMAIN dev_fs
    /\ "/dev/block/sdg" \in DOMAIN dev_fs
    /\ "/dev/block/sdf" \in DOMAIN dev_fs

\* the remove event that carries the fields of the remembered add
RemoveOf(u) == [u EXCEPT !.action = "remove"]

\* C28: when the remove of a block or character device is handled after the
\* add with the same devpath, subsystem and partition fields, with nothing
\* but platform adds and removes handled between the two, the device node and
\* every symlink the add created are gone from /dev
C28_RemoveUndoesAdd ==
    [][(/\ hist.added.ev.action = "add"
        /\ handle_device_event(RemoveOf(hist.added.ev), EnvOK({})))
       => /\ hist.added.devpath \notin DOMAIN dev_fs'
          /\ \A i \in 1..Len(hist.added.links) :
                hist.added.links[i] \notin DOMAIN dev_fs']_vars

\* the message the kernel sent for the uevent write k has been handled by
\* the device handlers
WriteHandled(k) ==
    \E i \in 1..Len(handled_log) :
       /\ handled_log[i].id = uevent_writes[k].id
       /\ handled_log[i].by = "device"

\* the directories above dir that have a uevent file
UeventDirsAbove(dir) ==
    {a \in DOMAIN SysTree : SysTree[a].uevent /\ StartsWith(dir, a \o "/")}

\* frame i of the walk was entered from a directory entry of the frame below
\* it that is a directory and does not start with a dot
EnteredFromDirEntry(i) ==
    LET p  == walk[i - 1]
        es == SysTree[p.dir].entries
    IN  /\ p.pc = "readdir"
        /\ p.idx \in 1..Len(es)
        /\ es[p.idx].is_dir
        /\ CharAt(es[p.idx].d_name, 1) # "."
        /\ walk[i].dir = p.dir \o "/" \o es[p.idx].d_name

\* C29: the coldboot walk is pre-order: when add is written to a directory's
\* uevent file, every directory above it that has a uevent file was written
\* to after the last write to this directory, the message the kernel sent for
\* that write has been handled, and if it was a platform device's add the
\* device is registered; the walk enters a directory only from an entry that
\* is a directory and does not start with a dot
C29_ColdbootPreOrder ==
    /\ [](\A i \in 1..Len(walk) :
             IF i = 1
             THEN \E r \in 1..Len(ColdbootRoots) : walk[1].dir = ColdbootRoots[r]
             ELSE EnteredFromDirEntry(i))
    /\ [][uevent_writes' # uevent_writes
          => LET dir == uevent_writes'[Len(uevent_writes')].dir
             IN  \A a \in UeventDirsAbove(dir) :
                    /\ \E j \in 1..Len(uevent_writes) :
                          /\ uevent_writes[j].dir = a
                          /\ WriteHandled(j)
                          /\ \A k \in 1..Len(uevent_writes) :
                                uevent_writes[k].dir = dir => k < j
                    /\ StartsWith(SysTree[a].sends[1], "add@/devices/platform/")
                       => \E n \in 1..Len(platform_names) :
                             platform_names[n].path = StrFrom(a, 5)]_vars

\* C29 witness: add has been written to the partition's uevent file below
\* soc.0, whose own add was written and handled before and is registered,
\* the walk having passed the "." entry of /sys/devices/platform
C29_Witness ==
    /\ Len(walk) = 4
    /\ walk[2].dir = "/sys/devices/platform"
    /\ walk[2].idx = 2
    /\ walk[4].dir = "/sys/devices/platform/soc.0/mmcblk0p3"
    /\ Len(uevent_writes) >= 2
    /\ uevent_writes[Len(uevent_writes)].dir = walk[4].dir
    /\ uevent_writes[Len(uevent_writes) - 1].dir = "/sys/devices/platform/soc.0"
    /\ WriteHandled(Len(uevent_writes) - 1)
    /\ platform_names # <<>>

=============================================================================
